---- MODULE Spec2Model ----
\* A model of the k8s-ipam allocation engine: the ipam front end (Create, Delete,
\* AllocateIPPrefix, DeAllocateIPPrefix, GetPrefixes), the instance registry and
\* allocation runtime behind it, and the watcher's fan-out.
EXTENDS Integers, Sequences, FiniteSets, TLC

\* ------------------------------------------------------------------ bounds
\* Width of an address in bits (the program's is 32 or 128).
AddrBits == 1
\* Most routes held by all tables together.
MaxRoutes == 2
\* Most calls one concurrent caller makes.
MaxCalls == 2
\* Most routes handed to one handleUpdate.
MaxUpdate == 3

\* ------------------------------------------------------------------ values
\* a nil pointer, and an instance the registry does not hold
Nil == [nil |-> TRUE]
Absent == [exists |-> FALSE, initialized |-> FALSE, routes |-> {}]
NIs == {"ni1", "ni2"}
Owners == {"o1", "o2"}
\* prefixKind values the runtime recognises, and one it does not
PrefixKindNetwork == "network"
PrefixKindAggregate == "aggregate"
Kinds == {PrefixKindNetwork, PrefixKindAggregate}
UnknownKind == "bogus"
\* a prefix string that does not parse
BadPrefix == [addr |-> -1, len |-> -1]

RECURSIVE Pow2(_)
Pow2(n) ==
    IF n = 0 THEN 1 ELSE 2 * Pow2(n - 1)

Addrs == 0 .. (Pow2(AddrBits) - 1)
Lens == 0 .. AddrBits
\* A parsed prefix keeps the address as given, host bits included.
Prefixes == [addr : Addrs, len : Lens]

\* the network address of addr under a mask of len bits
Mask(addr, len) ==
    (addr \div Pow2(AddrBits - len)) * Pow2(AddrBits - len)

\* parent contains child: no longer a mask, and the same network under it
Contains(parent, child) ==
    /\ parent.len <= child.len
    /\ Mask(child.addr, parent.len) = Mask(parent.addr, parent.len)

HasHostBits(p) ==
    Mask(p.addr, p.len) # p.addr

\* ------------------------------------------------------------------ errors
\* An error is the sequence of the fragments of its text; NoErr is nil.
NoErr == <<>>
ErrContains(err, s) ==
    \E i \in 1 .. Len(err) : err[i] = s

errValidateNetworkPrefixWoNetworkParent == "network prefix requires an existing parent network prefix"
ErrNotFound == <<"not found">>
ErrNotReady == <<"not ready">>
ErrMalformedPrefix == <<"cannot parse prefix">>
ErrUnknownKind == <<"unknown prefix kind">>
ErrAlreadyExists == <<"already exists">>
ErrBackend == <<"backend failure">>

\* ------------------------------------------------------------------ requests
\* An IPAllocation request: the fields of its spec the engine reads, and the
\* name that identifies its owner.
WellFormedAllocs ==
    { a \in [ni : NIs, kind : Kinds, prefix : Prefixes, create : BOOLEAN, owner : Owners] :
        a.kind = PrefixKindAggregate => a.create }
MalformedAllocs ==
    [ni : NIs, kind : {UnknownKind}, prefix : {[addr |-> 0, len |-> 0]}, create : {FALSE}, owner : {"o1"}]
        \cup [ni : NIs, kind : {PrefixKindNetwork}, prefix : {BadPrefix}, create : {FALSE}, owner : {"o1"}]
Allocs == WellFormedAllocs \cup MalformedAllocs

\* The route a request leaves in the table: the prefix as given, and labels that
\* record the kind, createPrefix and the owner.
RouteOf(alloc) ==
    [prefix |-> alloc.prefix, kind |-> alloc.kind, create |-> alloc.create, owner |-> alloc.owner]
Routes == { RouteOf(a) : a \in WellFormedAllocs }

\* ------------------------------------------------------------------ state
VARIABLES
    rib,        \* ipamRib: instance name -> [exists, initialized, routes]
    backend,    \* which backend New chose: "nop" (no client) or "configmap"
    last,       \* the last call on the ipam object and what it returned
    proc,       \* concurrent callers: where each is in the method it runs
    restored,   \* calls of backend Restore for each instance since its table was made
    d,          \* the watcher's registry: ownerGvk key -> ownerGvk value -> callback
    update,     \* the callbacks run by the latest handleUpdate, Nil when none is kept
    world       \* what the reconciler works on: the API server's objects, the IPAM's allocation

\* an object the API server does not hold
Gone == [gone |-> TRUE]
\* a cluster without the IPAllocation, without its NetworkInstance, nothing allocated
EmptyCluster == [cr |-> Gone, idx |-> "missing", held |-> ""]

\* ------------------------------------------------------------------ route table
Lookup(routes, prefix) ==
    { r \in routes : r.prefix = prefix }

\* the containing routes that are network prefixes created with createPrefix
NetworkParents(routes, prefix) ==
    { r \in routes : r.kind = PrefixKindNetwork /\ r.create /\ Contains(r.prefix, prefix) }

\* the most specific of a set of containing routes
LongestMatch(cands) ==
    { r \in cands : \A o \in cands : o.prefix.len <= r.prefix.len }

\* ------------------------------------------------------------------ instance registry
ribCreate(r, name) ==
    IF ~r[name].exists
    THEN [r EXCEPT ![name] = [exists |-> TRUE, initialized |-> FALSE, routes |-> {}]]
    ELSE r

isInitialized(r, name) ==
    r[name].exists /\ r[name].initialized

setInitialized(r, name) ==
    IF ~r[name].exists
    THEN [rib |-> r, err |-> ErrNotFound]
    ELSE [rib |-> [r EXCEPT ![name].initialized = TRUE], err |-> NoErr]

ribDelete(r, name) ==
    [r EXCEPT ![name] = Absent]

getRIB(r, name, initializing) ==
    IF ~r[name].exists THEN [err |-> ErrNotFound, routes |-> {}]
    ELSE IF ~initializing /\ ~r[name].initialized THEN [err |-> ErrNotReady, routes |-> {}]
    ELSE [err |-> NoErr, routes |-> r[name].routes]

\* ------------------------------------------------------------------ backend
\* What a backend call does is an input: whether it fails, and for Restore the
\* routes the external snapshot loads. The no-op backend loads nothing and
\* never fails.
Snapshots ==
    {{}} \cup { {rt} : rt \in { x \in Routes : x.create } }
RestoreOutcomes(b) ==
    IF b = "nop"
    THEN { [fail |-> FALSE, snap |-> {}] }
    ELSE [fail : BOOLEAN, snap : Snapshots]
\* Store and Delete load nothing.
BackendOutcomes(b) ==
    { be \in RestoreOutcomes(b) : be.snap = {} }

\* Restore loads the snapshot's routes into the instance's table.
Restore(r, name, be) ==
    [r EXCEPT ![name].routes =
        { x \in @ : \A s \in be.snap : s.prefix # x.prefix } \cup be.snap]

BackendErr(be) ==
    IF be.fail THEN ErrBackend ELSE NoErr

\* ------------------------------------------------------------------ allocation runtime
\* runtimes.Get: resolve the request to an operation on the instance's table.
RuntimesGet(r, alloc, initializing) ==
    LET t == getRIB(r, alloc.ni, initializing) IN
    IF t.err # NoErr THEN [err |-> t.err, routes |-> {}]
    ELSE IF alloc.prefix = BadPrefix THEN [err |-> ErrMalformedPrefix, routes |-> {}]
    ELSE IF alloc.kind \notin Kinds THEN [err |-> ErrUnknownKind, routes |-> {}]
    ELSE [err |-> NoErr, routes |-> t.routes]

\* op.Validate: a pure check of the request against the table.
Validate(routes, alloc) ==
    IF /\ alloc.kind = PrefixKindNetwork
       /\ ~alloc.create
       /\ LongestMatch(NetworkParents(routes, alloc.prefix)) = {}
    THEN [msg |-> errValidateNetworkPrefixWoNetworkParent, err |-> NoErr]
    ELSE [msg |-> "", err |-> NoErr]

\* op.Apply refusing the prefix the request's own route holds already
Apply_RefusesOwn(routes, alloc) ==
    IF Lookup(routes, alloc.prefix) # {}
    THEN [routes |-> routes, err |-> ErrAlreadyExists, resp |-> Nil]
    ELSE [routes |-> routes \cup {RouteOf(alloc)},
          err |-> NoErr,
          resp |-> [allocatedPrefix |-> alloc.prefix]]

\* op.Apply: insert the route as given. An identical prefix held by another
\* owner is a duplicate; the owner's own route is deleted and inserted again.
Apply(routes, alloc) ==
    LET held == Lookup(routes, alloc.prefix) IN
    IF \E h \in held : h.owner # alloc.owner
    THEN [routes |-> routes, err |-> ErrAlreadyExists, resp |-> Nil]
    ELSE [routes |-> (routes \ held) \cup {RouteOf(alloc)},
          err |-> NoErr,
          resp |-> [allocatedPrefix |-> alloc.prefix]]

\* op.Delete: remove the route of the request's prefix; none is not an error.
OpDelete(routes, alloc) ==
    [routes |-> routes \ Lookup(routes, alloc.prefix), err |-> NoErr]

\* ------------------------------------------------------------------ ipam
\* Each method returns the registry it leaves, its results, and the calls it
\* made on the registry, the runtime and the backend, in order.

\* Create without the isInitialized guard: restores and marks every time
Create_AlwaysRestores(r, name, be) ==
    LET si == setInitialized(Restore(ribCreate(r, name), name, be), name) IN
    [rib |-> si.rib, err |-> si.err, resp |-> Nil,
     calls |-> <<"create", "isInitialized", "Restore", "setInitialized">>]

\* Create giving up, the instance not initialized, when Restore fails
Create_StopsOnRestoreError(r, name, be) ==
    LET r1 == ribCreate(r, name) IN
    IF ~isInitialized(r1, name)
    THEN IF be.fail
         THEN [rib |-> Restore(r1, name, be), err |-> ErrBackend, resp |-> Nil,
               calls |-> <<"create", "isInitialized", "Restore", "Error">>]
         ELSE LET si == setInitialized(Restore(r1, name, be), name) IN
              [rib |-> si.rib, err |-> si.err, resp |-> Nil,
               calls |-> <<"create", "isInitialized", "Restore", "setInitialized">>]
    ELSE [rib |-> r1, err |-> NoErr, resp |-> Nil,
          calls |-> <<"create", "isInitialized">>]

\* ipam.Create; "Error" is the r.l.Error that logs a failed Restore
Create(r, name, be) ==
    LET r1 == ribCreate(r, name) IN
    IF ~isInitialized(r1, name)
    THEN LET si == setInitialized(Restore(r1, name, be), name) IN
         [rib |-> si.rib, err |-> si.err, resp |-> Nil,
          calls |-> IF be.fail
                    THEN <<"create", "isInitialized", "Restore", "Error", "setInitialized">>
                    ELSE <<"create", "isInitialized", "Restore", "setInitialized">>]
    ELSE [rib |-> r1, err |-> NoErr, resp |-> Nil,
          calls |-> <<"create", "isInitialized">>]

\* Delete that asks the backend to delete and keeps the table
Delete_KeepsTable(r, name, be) ==
    [rib |-> r, err |-> NoErr, resp |-> Nil, calls |-> <<"BackendDelete">>]

\* Delete that drops every instance's table
Delete_DropsAll(r, name, be) ==
    [rib |-> [n \in NIs |-> Absent], err |-> NoErr, resp |-> Nil,
     calls |-> <<"delete", "BackendDelete">>]

\* ipam.Delete
Delete(r, name, be) ==
    [rib |-> ribDelete(r, name), err |-> NoErr, resp |-> Nil,
     calls |-> <<"delete", "BackendDelete">>]

\* AllocateIPPrefix without the check of Validate's diagnostic message
AllocateIPPrefix_IgnoresMsg(r, alloc, be) ==
    LET op == RuntimesGet(r, alloc, FALSE)
        a == Apply(op.routes, alloc)
    IN
    IF op.err # NoErr
    THEN [rib |-> r, err |-> op.err, resp |-> Nil, calls |-> <<"Get">>]
    ELSE IF a.err # NoErr
    THEN [rib |-> r, err |-> a.err, resp |-> Nil, calls |-> <<"Get", "Validate", "Apply">>]
    ELSE [rib |-> [r EXCEPT ![alloc.ni].routes = a.routes], err |-> BackendErr(be),
          resp |-> a.resp, calls |-> <<"Get", "Validate", "Apply", "Store">>]

\* AllocateIPPrefix answering with the network address of the prefix
AllocateIPPrefix_Normalises(r, alloc, be) ==
    LET op == RuntimesGet(r, alloc, FALSE)
        v == Validate(op.routes, alloc)
        a == Apply(op.routes, alloc)
    IN
    IF op.err # NoErr
    THEN [rib |-> r, err |-> op.err, resp |-> Nil, calls |-> <<"Get">>]
    ELSE IF v.msg # ""
    THEN [rib |-> r, err |-> <<"validated failed: ", v.msg>>, resp |-> Nil,
          calls |-> <<"Get", "Validate">>]
    ELSE IF a.err # NoErr
    THEN [rib |-> r, err |-> a.err, resp |-> Nil, calls |-> <<"Get", "Validate", "Apply">>]
    ELSE [rib |-> [r EXCEPT ![alloc.ni].routes = a.routes], err |-> BackendErr(be),
          resp |-> [allocatedPrefix |->
                      [addr |-> Mask(alloc.prefix.addr, alloc.prefix.len), len |-> alloc.prefix.len]],
          calls |-> <<"Get", "Validate", "Apply", "Store">>]

\* AllocateIPPrefix returning the request as allocated without applying it
AllocateIPPrefix_NoApply(r, alloc, be) ==
    LET op == RuntimesGet(r, alloc, FALSE)
        v == Validate(op.routes, alloc)
    IN
    IF op.err # NoErr
    THEN [rib |-> r, err |-> op.err, resp |-> Nil, calls |-> <<"Get">>]
    ELSE IF v.msg # ""
    THEN [rib |-> r, err |-> <<"validated failed: ", v.msg>>, resp |-> Nil,
          calls |-> <<"Get", "Validate">>]
    ELSE [rib |-> r, err |-> BackendErr(be), resp |-> [allocatedPrefix |-> alloc.prefix],
          calls |-> <<"Get", "Validate", "Store">>]

\* AllocateIPPrefix returning a nil allocation with Store's result
AllocateIPPrefix_ReturnsNil(r, alloc, be) ==
    LET op == RuntimesGet(r, alloc, FALSE)
        v == Validate(op.routes, alloc)
        a == Apply(op.routes, alloc)
    IN
    IF op.err # NoErr
    THEN [rib |-> r, err |-> op.err, resp |-> Nil, calls |-> <<"Get">>]
    ELSE IF v.msg # ""
    THEN [rib |-> r, err |-> <<"validated failed: ", v.msg>>, resp |-> Nil,
          calls |-> <<"Get", "Validate">>]
    ELSE IF a.err # NoErr
    THEN [rib |-> r, err |-> a.err, resp |-> Nil, calls |-> <<"Get", "Validate", "Apply">>]
    ELSE [rib |-> [r EXCEPT ![alloc.ni].routes = a.routes], err |-> BackendErr(be),
          resp |-> Nil, calls |-> <<"Get", "Validate", "Apply", "Store">>]

\* AllocateIPPrefix calling Store also when Validate refused the request
AllocateIPPrefix_StoresAlways(r, alloc, be) ==
    LET op == RuntimesGet(r, alloc, FALSE)
        v == Validate(op.routes, alloc)
        a == Apply(op.routes, alloc)
    IN
    IF op.err # NoErr
    THEN [rib |-> r, err |-> op.err, resp |-> Nil, calls |-> <<"Get">>]
    ELSE IF v.msg # ""
    THEN [rib |-> r, err |-> <<"validated failed: ", v.msg>>, resp |-> Nil,
          calls |-> <<"Get", "Validate", "Store">>]
    ELSE IF a.err # NoErr
    THEN [rib |-> r, err |-> a.err, resp |-> Nil, calls |-> <<"Get", "Validate", "Apply">>]
    ELSE [rib |-> [r EXCEPT ![alloc.ni].routes = a.routes], err |-> BackendErr(be),
          resp |-> a.resp, calls |-> <<"Get", "Validate", "Apply", "Store">>]

\* AllocateIPPrefix undoing Apply when Store fails
AllocateIPPrefix_RollsBack(r, alloc, be) ==
    LET op == RuntimesGet(r, alloc, FALSE)
        v == Validate(op.routes, alloc)
        a == Apply(op.routes, alloc)
    IN
    IF op.err # NoErr
    THEN [rib |-> r, err |-> op.err, resp |-> Nil, calls |-> <<"Get">>]
    ELSE IF v.msg # ""
    THEN [rib |-> r, err |-> <<"validated failed: ", v.msg>>, resp |-> Nil,
          calls |-> <<"Get", "Validate">>]
    ELSE IF a.err # NoErr
    THEN [rib |-> r, err |-> a.err, resp |-> Nil, calls |-> <<"Get", "Validate", "Apply">>]
    ELSE IF be.fail
    THEN [rib |-> r, err |-> ErrBackend, resp |-> Nil,
          calls |-> <<"Get", "Validate", "Apply", "Store">>]
    ELSE [rib |-> [r EXCEPT ![alloc.ni].routes = a.routes], err |-> NoErr,
          resp |-> a.resp, calls |-> <<"Get", "Validate", "Apply", "Store">>]

\* AllocateIPPrefix going on to Validate before it returns the runtime's error
AllocateIPPrefix_ValidatesUnresolved(r, alloc, be) ==
    LET op == RuntimesGet(r, alloc, FALSE)
        v == Validate(op.routes, alloc)
        a == Apply(op.routes, alloc)
    IN
    IF op.err # NoErr
    THEN [rib |-> r, err |-> op.err, resp |-> Nil, calls |-> <<"Get", "Validate">>]
    ELSE IF v.msg # ""
    THEN [rib |-> r, err |-> <<"validated failed: ", v.msg>>, resp |-> Nil,
          calls |-> <<"Get", "Validate">>]
    ELSE IF a.err # NoErr
    THEN [rib |-> r, err |-> a.err, resp |-> Nil, calls |-> <<"Get", "Validate", "Apply">>]
    ELSE [rib |-> [r EXCEPT ![alloc.ni].routes = a.routes], err |-> BackendErr(be),
          resp |-> a.resp, calls |-> <<"Get", "Validate", "Apply", "Store">>]

\* ipam.AllocateIPPrefix
AllocateIPPrefix(r, alloc, be) ==
    LET op == RuntimesGet(r, alloc, FALSE)
        v == Validate(op.routes, alloc)
        a == Apply(op.routes, alloc)
    IN
    IF op.err # NoErr
    THEN [rib |-> r, err |-> op.err, resp |-> Nil, calls |-> <<"Get">>]
    ELSE IF v.err # NoErr
    THEN [rib |-> r, err |-> v.err, resp |-> Nil, calls |-> <<"Get", "Validate">>]
    ELSE IF v.msg # ""
    THEN [rib |-> r, err |-> <<"validated failed: ", v.msg>>, resp |-> Nil,
          calls |-> <<"Get", "Validate">>]
    ELSE IF a.err # NoErr
    THEN [rib |-> [r EXCEPT ![alloc.ni].routes = a.routes], err |-> a.err, resp |-> Nil,
          calls |-> <<"Get", "Validate", "Apply">>]
    ELSE [rib |-> [r EXCEPT ![alloc.ni].routes = a.routes], err |-> BackendErr(be),
          resp |-> a.resp, calls |-> <<"Get", "Validate", "Apply", "Store">>]

\* DeAllocateIPPrefix reporting a route that is not in the table as an error
DeAllocateIPPrefix_MissingIsError(r, alloc, be) ==
    LET op == RuntimesGet(r, alloc, FALSE)
        del == OpDelete(op.routes, alloc)
    IN
    IF op.err # NoErr
    THEN [rib |-> r, err |-> op.err, resp |-> Nil, calls |-> <<"Get">>]
    ELSE IF Lookup(op.routes, alloc.prefix) = {}
    THEN [rib |-> r, err |-> ErrNotFound, resp |-> Nil, calls |-> <<"Get", "Delete">>]
    ELSE [rib |-> [r EXCEPT ![alloc.ni].routes = del.routes], err |-> BackendErr(be),
          resp |-> Nil, calls |-> <<"Get", "Delete", "Store">>]

\* DeAllocateIPPrefix emptying the table of the instance
DeAllocateIPPrefix_ClearsTable(r, alloc, be) ==
    LET op == RuntimesGet(r, alloc, FALSE) IN
    IF op.err # NoErr
    THEN [rib |-> r, err |-> op.err, resp |-> Nil, calls |-> <<"Get">>]
    ELSE [rib |-> [r EXCEPT ![alloc.ni].routes = {}], err |-> BackendErr(be),
          resp |-> Nil, calls |-> <<"Get", "Delete", "Store">>]

\* ipam.DeAllocateIPPrefix
DeAllocateIPPrefix(r, alloc, be) ==
    LET op == RuntimesGet(r, alloc, FALSE)
        del == OpDelete(op.routes, alloc)
    IN
    IF op.err # NoErr
    THEN [rib |-> r, err |-> op.err, resp |-> Nil, calls |-> <<"Get">>]
    ELSE IF del.err # NoErr
    THEN [rib |-> [r EXCEPT ![alloc.ni].routes = del.routes], err |-> del.err, resp |-> Nil,
          calls |-> <<"Get", "Delete">>]
    ELSE [rib |-> [r EXCEPT ![alloc.ni].routes = del.routes], err |-> BackendErr(be),
          resp |-> Nil, calls |-> <<"Get", "Delete", "Store">>]

\* ipam.GetPrefixes
GetPrefixes(r, name) ==
    LET t == getRIB(r, name, FALSE) IN
    IF t.err # NoErr THEN {} ELSE t.routes

\* ------------------------------------------------------------------ sequential callers
\* One caller at a time issues calls on the ipam object; each call runs to its
\* return.
TotalRoutes(r) ==
    LET n1 == Cardinality(r["ni1"].routes)
        n2 == Cardinality(r["ni2"].routes)
    IN n1 + n2

Returned(opname, name, res) ==
    [op |-> opname, ni |-> name, err |-> res.err, resp |-> res.resp, calls |-> res.calls,
     changed |-> (res.rib # rib)]

Threads == {"t1", "t2"}
\* newWatcher, and every Go map before its first entry
EmptyMap == [x \in {} |-> Nil]
Idle == [at |-> "idle", name |-> "", left |-> MaxCalls]

\* New(c): the no-op backend without a client, the ConfigMap backend with one
New(c) ==
    /\ rib = [n \in NIs |-> Absent]
    /\ backend = (IF c = Nil THEN "nop" ELSE "configmap")
    /\ proc = [t \in Threads |-> Idle]
    /\ restored = [n \in NIs |-> 0]
    /\ d = EmptyMap
    /\ update = Nil
    /\ world = EmptyCluster
    /\ last = [op |-> "New", ni |-> "", err |-> NoErr, resp |-> Nil, calls |-> <<>>,
               changed |-> FALSE]

CallCreate(name, be) ==
    LET res == Create(rib, name, be) IN
    /\ TotalRoutes(res.rib) <= MaxRoutes
    /\ rib' = res.rib
    /\ last' = Returned("Create", name, res)
    /\ UNCHANGED <<backend, proc, restored, d, update, world>>

CallDelete(name, be) ==
    LET res == Delete(rib, name, be) IN
    /\ rib' = res.rib
    /\ last' = Returned("Delete", name, res)
    /\ UNCHANGED <<backend, proc, restored, d, update, world>>

CallAllocateIPPrefix(alloc, be) ==
    LET res == AllocateIPPrefix(rib, alloc, be) IN
    /\ TotalRoutes(res.rib) <= MaxRoutes
    /\ rib' = res.rib
    /\ last' = Returned("AllocateIPPrefix", alloc.ni, res)
    /\ UNCHANGED <<backend, proc, restored, d, update, world>>

CallDeAllocateIPPrefix(alloc, be) ==
    LET res == DeAllocateIPPrefix(rib, alloc, be) IN
    /\ rib' = res.rib
    /\ last' = Returned("DeAllocateIPPrefix", alloc.ni, res)
    /\ UNCHANGED <<backend, proc, restored, d, update, world>>

\* The instances the callers address: both without persistence, one when the
\* backend's outcomes are inputs too.
Driven(b) ==
    IF b = "nop" THEN NIs ELSE {"ni1"}

Next ==
    \/ \E name \in Driven(backend), be \in RestoreOutcomes(backend) : CallCreate(name, be)
    \/ \E name \in Driven(backend), be \in BackendOutcomes(backend) : CallDelete(name, be)
    \/ \E alloc \in Allocs, be \in BackendOutcomes(backend) :
        alloc.ni \in Driven(backend) /\ CallAllocateIPPrefix(alloc, be)
    \/ \E alloc \in Allocs, be \in BackendOutcomes(backend) :
        alloc.ni \in Driven(backend) /\ CallDeAllocateIPPrefix(alloc, be)

vars == <<rib, backend, last, proc, restored, d, update, world>>

\* the engine as the tests build it, New(nil)
Spec == New(Nil) /\ [][Next]_vars
\* the engine with a client, persisting to ConfigMaps
SpecBackend == New([client |-> TRUE]) /\ [][Next]_vars

\* ------------------------------------------------------------------ concurrent callers
\* Caller threads run ipam's methods against the shared registry. Each registry
\* method and each backend call is one step; a thread may be overtaken between
\* any two of them.

\* Create, line 295: the call starts
CreateEnter(t, name) ==
    /\ proc[t].at = "idle"
    /\ proc[t].left > 0
    /\ proc' = [proc EXCEPT ![t] = [at |-> "create", name |-> name, left |-> @.left - 1]]
    /\ UNCHANGED <<rib, backend, last, restored, d, update, world>>

\* Create, line 300: r.ipamRib.create
CreateRibCreate(t) ==
    /\ proc[t].at = "create"
    /\ rib' = ribCreate(rib, proc[t].name)
    /\ proc' = [proc EXCEPT ![t].at = "isInitialized"]
    /\ UNCHANGED <<backend, last, restored, d, update, world>>

\* Create, line 301: the isInitialized test, and the return of line 310
CreateIsInitialized(t) ==
    /\ proc[t].at = "isInitialized"
    /\ proc' = [proc EXCEPT ![t] =
                  IF ~isInitialized(rib, proc[t].name)
                  THEN [@ EXCEPT !.at = "Restore"]
                  ELSE [@ EXCEPT !.at = "idle", !.name = ""]]
    /\ UNCHANGED <<rib, backend, last, restored, d, update, world>>

\* Create, lines 302-304: r.backend.Restore; its error is logged and no more
CreateRestore(t, be) ==
    /\ proc[t].at = "Restore"
    /\ rib' = (IF rib[proc[t].name].exists THEN Restore(rib, proc[t].name, be) ELSE rib)
    /\ restored' = [restored EXCEPT ![proc[t].name] = @ + 1]
    /\ proc' = [proc EXCEPT ![t].at = "setInitialized"]
    /\ UNCHANGED <<backend, last, d, update, world>>

\* Create, line 307: r.ipamRib.setInitialized and the return
CreateSetInitialized(t) ==
    /\ proc[t].at = "setInitialized"
    /\ rib' = setInitialized(rib, proc[t].name).rib
    /\ proc' = [proc EXCEPT ![t] = [@ EXCEPT !.at = "idle", !.name = ""]]
    /\ UNCHANGED <<backend, last, restored, d, update, world>>

\* Delete, lines 315-325: r.ipamRib.delete and r.backend.Delete
DeleteRibDelete(t, name, be) ==
    /\ proc[t].at = "idle"
    /\ proc[t].left > 0
    /\ rib[name].exists
    /\ rib' = Delete(rib, name, be).rib
    /\ restored' = [restored EXCEPT ![name] = 0]
    /\ proc' = [proc EXCEPT ![t].left = @ - 1]
    /\ UNCHANGED <<backend, last, d, update, world>>

NextConc ==
    \/ \E t \in Threads, name \in NIs : CreateEnter(t, name)
    \/ \E t \in Threads : CreateRibCreate(t)
    \/ \E t \in Threads : CreateIsInitialized(t)
    \/ \E t \in Threads, be \in RestoreOutcomes(backend) : CreateRestore(t, be)
    \/ \E t \in Threads : CreateSetInitialized(t)
    \/ \E t \in Threads, name \in NIs, be \in BackendOutcomes(backend) :
        DeleteRibDelete(t, name, be)

\* callers on several threads, as the reconcilers and the server's handlers are
SpecConc == New(Nil) /\ [][NextConc]_vars

\* ------------------------------------------------------------------ concurrent allocation
\* Two reconcilers, each for the IPAllocation of its own owner, call
\* AllocateIPPrefix and DeAllocateIPPrefix on instance ni1 while the reconciler of
\* the network instance calls Create. The calls of a method on the runtime and
\* the backend are separate steps; each of them is atomic under the table's lock.
OwnerOf == [t \in Threads |-> IF t = "t1" THEN "o1" ELSE "o2"]
RaceAllocs(t) ==
    { a \in WellFormedAllocs :
        /\ a.ni = "ni1"
        /\ a.owner = OwnerOf[t]
        /\ a.kind = PrefixKindNetwork
        /\ a.prefix.addr = 0 }

\* a caller between calls: the method it called last, how that call went, and
\* how many calls of the other caller ran while it did: none, one, or more (2)
IdleCaller ==
    [at |-> "idle", op |-> "", alloc |-> Nil, left |-> MaxCalls, met |-> 0,
     err |-> NoErr, resp |-> Nil, calls |-> <<>>]

\* the callers after caller t has started a call of method op for alloc
Entered(t, op, alloc) ==
    [u \in Threads |->
        IF u = t
        THEN [at |-> "Get", op |-> op, alloc |-> alloc, left |-> proc[t].left - 1,
              met |-> IF \E o \in Threads \ {t} : proc[o].at # "idle" THEN 1 ELSE 0,
              err |-> NoErr, resp |-> Nil, calls |-> <<>>]
        ELSE IF proc[u].at # "idle"
        THEN [proc[u] EXCEPT !.met = IF @ = 0 THEN 1 ELSE 2]
        ELSE proc[u]]

\* a method returns to its caller
Return(t, err, resp, calls) ==
    [proc EXCEPT ![t] = [@ EXCEPT !.at = "idle", !.err = err, !.resp = resp, !.calls = calls]]

\* Create, lines 294-311, by the network instance's reconciler; a Create that
\* finds the instance initialized changes nothing and is no step
RaceCreate ==
    /\ rib' = Create(rib, "ni1", [fail |-> FALSE, snap |-> {}]).rib
    /\ rib' # rib
    /\ UNCHANGED <<backend, last, proc, restored, d, update, world>>

\* AllocateIPPrefix, lines 329-331: the call starts
AllocEnter(t, alloc) ==
    /\ proc[t].at = "idle"
    /\ proc[t].left > 0
    /\ proc' = Entered(t, "AllocateIPPrefix", alloc)
    /\ UNCHANGED <<rib, backend, last, restored, d, update, world>>

\* AllocateIPPrefix, lines 338-341: r.runtimes.Get
AllocGet(t) ==
    /\ proc[t].at = "Get"
    /\ proc[t].op = "AllocateIPPrefix"
    /\ LET op == RuntimesGet(rib, proc[t].alloc, FALSE) IN
       proc' = IF op.err # NoErr
               THEN Return(t, op.err, Nil, <<"Get">>)
               ELSE [proc EXCEPT ![t].at = "Validate"]
    /\ UNCHANGED <<rib, backend, last, restored, d, update, world>>

\* the Validate step letting a request with a diagnostic message through
AllocValidate_IgnoresMsg(t) ==
    /\ proc[t].at = "Validate"
    /\ LET v == Validate(rib[proc[t].alloc.ni].routes, proc[t].alloc) IN
       proc' = IF v.err # NoErr
               THEN Return(t, v.err, Nil, <<"Get", "Validate">>)
               ELSE [proc EXCEPT ![t].at = "Apply"]
    /\ UNCHANGED <<rib, backend, last, restored, d, update, world>>

\* AllocateIPPrefix, lines 342-350: op.Validate
AllocValidate(t) ==
    /\ proc[t].at = "Validate"
    /\ LET v == Validate(rib[proc[t].alloc.ni].routes, proc[t].alloc) IN
       proc' = IF v.err # NoErr
               THEN Return(t, v.err, Nil, <<"Get", "Validate">>)
               ELSE IF v.msg # ""
               THEN Return(t, <<"validated failed: ", v.msg>>, Nil, <<"Get", "Validate">>)
               ELSE [proc EXCEPT ![t].at = "Apply"]
    /\ UNCHANGED <<rib, backend, last, restored, d, update, world>>

\* the Apply step putting the route in whoever holds the prefix
AllocApply_Overwrites(t) ==
    /\ proc[t].at = "Apply"
    /\ rib' = [rib EXCEPT ![proc[t].alloc.ni].routes =
                  (@ \ Lookup(@, proc[t].alloc.prefix)) \cup {RouteOf(proc[t].alloc)}]
    /\ proc' = [proc EXCEPT ![t].at = "Store",
                            ![t].resp = [allocatedPrefix |-> proc[t].alloc.prefix]]
    /\ UNCHANGED <<backend, last, restored, d, update, world>>

\* AllocateIPPrefix, lines 351-354: op.Apply
AllocApply(t) ==
    /\ proc[t].at = "Apply"
    /\ LET a == Apply(rib[proc[t].alloc.ni].routes, proc[t].alloc) IN
       /\ rib' = [rib EXCEPT ![proc[t].alloc.ni].routes = a.routes]
       /\ proc' = IF a.err # NoErr
                  THEN Return(t, a.err, Nil, <<"Get", "Validate", "Apply">>)
                  ELSE [proc EXCEPT ![t].at = "Store", ![t].resp = a.resp]
    /\ UNCHANGED <<backend, last, restored, d, update, world>>

\* AllocateIPPrefix, line 357: r.backend.Store and the return
AllocStore(t, be) ==
    /\ proc[t].at = "Store"
    /\ proc[t].op = "AllocateIPPrefix"
    /\ proc' = Return(t, BackendErr(be), proc[t].resp, <<"Get", "Validate", "Apply", "Store">>)
    /\ UNCHANGED <<rib, backend, last, restored, d, update, world>>

\* DeAllocateIPPrefix, line 361: the call starts
DeallocEnter(t, alloc) ==
    /\ proc[t].at = "idle"
    /\ proc[t].left > 0
    /\ proc' = Entered(t, "DeAllocateIPPrefix", alloc)
    /\ UNCHANGED <<rib, backend, last, restored, d, update, world>>

\* DeAllocateIPPrefix, lines 368-372: r.runtimes.Get
DeallocGet(t) ==
    /\ proc[t].at = "Get"
    /\ proc[t].op = "DeAllocateIPPrefix"
    /\ LET op == RuntimesGet(rib, proc[t].alloc, FALSE) IN
       proc' = IF op.err # NoErr
               THEN Return(t, op.err, Nil, <<"Get">>)
               ELSE [proc EXCEPT ![t].at = "Delete"]
    /\ UNCHANGED <<rib, backend, last, restored, d, update, world>>

\* DeAllocateIPPrefix, lines 374-377: op.Delete
DeallocDelete(t) ==
    /\ proc[t].at = "Delete"
    /\ LET del == OpDelete(rib[proc[t].alloc.ni].routes, proc[t].alloc) IN
       /\ rib' = [rib EXCEPT ![proc[t].alloc.ni].routes = del.routes]
       /\ proc' = IF del.err # NoErr
                  THEN Return(t, del.err, Nil, <<"Get", "Delete">>)
                  ELSE [proc EXCEPT ![t].at = "Store"]
    /\ UNCHANGED <<backend, last, restored, d, update, world>>

\* DeAllocateIPPrefix, line 378: r.backend.Store and the return
DeallocStore(t, be) ==
    /\ proc[t].at = "Store"
    /\ proc[t].op = "DeAllocateIPPrefix"
    /\ proc' = Return(t, BackendErr(be), Nil, <<"Get", "Delete", "Store">>)
    /\ UNCHANGED <<rib, backend, last, restored, d, update, world>>

NextRace ==
    \/ RaceCreate
    \/ \E t \in Threads : \E alloc \in RaceAllocs(t) : AllocEnter(t, alloc)
    \/ \E t \in Threads : AllocGet(t)
    \/ \E t \in Threads : AllocValidate(t)
    \/ \E t \in Threads : AllocApply(t)
    \/ \E t \in Threads, be \in BackendOutcomes(backend) : AllocStore(t, be)
    \/ \E t \in Threads : \E alloc \in RaceAllocs(t) : DeallocEnter(t, alloc)
    \/ \E t \in Threads : DeallocGet(t)
    \/ \E t \in Threads : DeallocDelete(t)
    \/ \E t \in Threads, be \in BackendOutcomes(backend) : DeallocStore(t, be)

\* New(nil) with its callers between calls
NewRace ==
    /\ rib = [n \in NIs |-> Absent]
    /\ backend = "nop"
    /\ proc = [t \in Threads |-> IdleCaller]
    /\ restored = [n \in NIs |-> 0]
    /\ d = EmptyMap
    /\ update = Nil
    /\ world = EmptyCluster
    /\ last = [op |-> "New", ni |-> "", err |-> NoErr, resp |-> Nil, calls |-> <<>>,
               changed |-> FALSE]

\* allocation and release by reconcilers that run at the same time
SpecRace == NewRace /\ [][NextRace]_vars

\* ------------------------------------------------------------------ watcher
OwnerGvkKeys == {"k1", "k2"}
OwnerGvks == {"X", "Y"}
\* callbacks, told apart by name
CallbackFns == {"f", "g"}
StatusCodes == {"Valid", "Unknown"}

\* Go maps as functions on the keys they hold
Put(m, k, v) == [x \in DOMAIN m \cup {k} |-> IF x = k THEN v ELSE m[x]]
Remove(m, k) == [x \in DOMAIN m \ {k} |-> m[x]]
Label(k, v) == Put(EmptyMap, k, v)

\* the routes a table hands over: told apart by id, each with its labels
WatchedRoutes ==
    { [id |-> "r1", labels |-> Label("k1", "X")],
      [id |-> "r2", labels |-> Label("k1", "Y")],
      [id |-> "r3", labels |-> EmptyMap],
      [id |-> "r4", labels |-> Put(Label("k1", "X"), "k2", "X")],
      [id |-> "r5", labels |-> Label("k2", "X")] }

Injective(f) == \A i, j \in DOMAIN f : f[i] = f[j] => i = j
\* table.Routes: lists of different routes
RouteLists ==
    UNION { {l \in [1..n -> WatchedRoutes] : Injective(l)} : n \in 0..MaxUpdate }
\* the orders in which a range statement may walk the keys of a map
RangeOrders(m) ==
    {o \in [1..Cardinality(DOMAIN m) -> DOMAIN m] : Injective(o)}

\* addWatch, lines 39-47
addWatch(reg, ownerGvkKey, ownerGvk, fn) ==
    LET made == IF ownerGvkKey \notin DOMAIN reg
                THEN Put(reg, ownerGvkKey, EmptyMap)
                ELSE reg
    IN  [made EXCEPT ![ownerGvkKey] = Put(@, ownerGvk, fn)]

\* deleteWatch leaving the outer entry of a key whose last watch it removed
deleteWatch_NoPrune(reg, ownerGvkKey, ownerGvk) ==
    IF ownerGvkKey \in DOMAIN reg
    THEN [reg EXCEPT ![ownerGvkKey] = Remove(@, ownerGvk)]
    ELSE reg

\* deleteWatch, lines 49-59
deleteWatch(reg, ownerGvkKey, ownerGvk) ==
    LET cut == IF ownerGvkKey \in DOMAIN reg
               THEN [reg EXCEPT ![ownerGvkKey] = Remove(@, ownerGvk)]
               ELSE reg
    IN  IF ownerGvkKey \in DOMAIN cut /\ DOMAIN cut[ownerGvkKey] = {}
        THEN Remove(cut, ownerGvkKey)
        ELSE cut

\* handleUpdate, lines 73-77: the walk over the routes in the order given, and
\* for each route over the registry's keys in the order the range statement
\* takes them; kept are the steps that pass both tests, the route's label under the key
\* and a callback registered for the label's value
RECURSIVE Hits(_, _, _)
Hits(reg, routes, keyOrders) ==
    IF routes = <<>> THEN <<>>
    ELSE
        LET route == Head(routes)
            matched == SelectSeq(Head(keyOrders), LAMBDA k :
                           /\ k \in DOMAIN route.labels
                           /\ route.labels[k] \in DOMAIN reg[k])
        IN  [i \in 1..Len(matched) |->
                [route |-> route, ownerGvkKey |-> matched[i],
                 ownerGvkValue |-> route.labels[matched[i]]]]
            \o Hits(reg, Tail(routes), Tail(keyOrders))

\* handleUpdate, lines 68 and 78-86: updateMap has one entry for each VALUE hit;
\* the first hit of the value makes it and gives the callback, every hit of the
\* value appends its route
UpdateMap(reg, routes, keyOrders) ==
    LET hits == Hits(reg, routes, keyOrders)
    IN  [v \in {hits[i].ownerGvkValue : i \in DOMAIN hits} |->
            LET mine == SelectSeq(hits, LAMBDA h : h.ownerGvkValue = v)
            IN  [routes |-> [i \in 1..Len(mine) |-> mine[i].route],
                 callBackFn |-> reg[mine[1].ownerGvkKey][v]]]

\* what Go leaves open in one handleUpdate: the order of the registry's keys for
\* each route, and the order of the owners when the callbacks are called
Schedules(reg, routes) ==
    [keys : [1..Len(routes) -> RangeOrders(reg)],
     owners : RangeOrders([v \in OwnerGvks |-> Nil])]

\* handleUpdate passing every route of the update to each callback
handleUpdate_Unfiltered(reg, routes, statusCode, sched) ==
    LET updateMap == UpdateMap(reg, routes, sched.keys)
        walk == SelectSeq(sched.owners, LAMBDA v : v \in DOMAIN updateMap)
    IN  [i \in 1..Len(walk) |->
            [ownerGvk |-> walk[i], callBackFn |-> updateMap[walk[i]].callBackFn,
             routes |-> routes, code |-> statusCode]]

\* handleUpdate, lines 61-98: the callbacks it calls, in the order it calls them
handleUpdate(reg, routes, statusCode, sched) ==
    LET updateMap == UpdateMap(reg, routes, sched.keys)
        walk == SelectSeq(sched.owners, LAMBDA v : v \in DOMAIN updateMap)
    IN  [i \in 1..Len(walk) |->
            [ownerGvk |-> walk[i], callBackFn |-> updateMap[walk[i]].callBackFn,
             routes |-> updateMap[walk[i]].routes, code |-> statusCode]]

AddWatch(ownerGvkKey, ownerGvk, fn) ==
    /\ d' = addWatch(d, ownerGvkKey, ownerGvk, fn)
    /\ update' = Nil
    /\ UNCHANGED <<rib, backend, last, proc, restored, world>>

DeleteWatch(ownerGvkKey, ownerGvk) ==
    /\ d' = deleteWatch(d, ownerGvkKey, ownerGvk)
    /\ update' = Nil
    /\ UNCHANGED <<rib, backend, last, proc, restored, world>>

\* One fan-out is kept until the registry is next written. handleUpdate reads
\* nothing an earlier handleUpdate left, so no registry and no fan-out is lost.
HandleUpdate ==
    /\ update = Nil
    /\ \E routes \in RouteLists, statusCode \in StatusCodes :
        \E sched \in Schedules(d, routes) :
            update' = [routes |-> routes, code |-> statusCode,
                       calls |-> handleUpdate(d, routes, statusCode, sched)]
    /\ UNCHANGED <<rib, backend, last, proc, restored, d, world>>

NextWatch ==
    \/ \E k \in OwnerGvkKeys, v \in OwnerGvks, fn \in CallbackFns : AddWatch(k, v, fn)
    \/ \E k \in OwnerGvkKeys, v \in OwnerGvks : DeleteWatch(k, v)
    \/ HandleUpdate

\* the watcher of a new ipam, its registry written and its updates handled
SpecWatch == New(Nil) /\ [][NextWatch]_vars

\* ipam.AddWatch and ipam.DeleteWatch as one caller issues them: the call, its
\* arguments and the registry it found are kept
CallAddWatch(ownerGvkKey, ownerGvk, fn) ==
    /\ d' = addWatch(d, ownerGvkKey, ownerGvk, fn)
    /\ last' = [op |-> "AddWatch", key |-> ownerGvkKey, value |-> ownerGvk, fn |-> fn,
                before |-> d]
    /\ UNCHANGED <<rib, backend, proc, restored, update, world>>

CallDeleteWatch(ownerGvkKey, ownerGvk) ==
    /\ d' = deleteWatch(d, ownerGvkKey, ownerGvk)
    /\ last' = [op |-> "DeleteWatch", key |-> ownerGvkKey, value |-> ownerGvk, fn |-> "",
                before |-> d]
    /\ UNCHANGED <<rib, backend, proc, restored, update, world>>

NextRegistry ==
    \/ \E k \in OwnerGvkKeys, v \in OwnerGvks, fn \in CallbackFns : CallAddWatch(k, v, fn)
    \/ \E k \in OwnerGvkKeys, v \in OwnerGvks : CallDeleteWatch(k, v)

\* the watch registry of a new ipam under AddWatch and DeleteWatch
SpecRegistry == New(Nil) /\ [][NextRegistry]_vars

\* ------------------------------------------------------------------ watcher locking

\* the watches and updates of the callers that share one watcher
LockKeys == {"k1"}
\* callbacks that register or remove a watch before they return
ReentrantFns == {"addsWatch", "deletesWatch"}
LockFns == {"f"} \cup ReentrantFns
LockUpdates ==
    {l \in RouteLists : Len(l) \in 1..2 /\ \A i \in DOMAIN l : l[i].id \in {"r1", "r2"}}

\* a caller of the watcher between calls: holds is what it has of r.m, todo the
\* callbacks of updateMap it has still to call, fired the owners it has called,
\* inner the registry method its running callback has called, gone the watches
\* deleted before its handleUpdate started
IdleLocker ==
    [at |-> "idle", op |-> "", inner |-> "", key |-> "", value |-> "", fn |-> "",
     routes |-> <<>>, code |-> "", left |-> MaxCalls, holds |-> {},
     todo |-> <<>>, fired |-> {}, gone |-> {}]

Readers == {t \in Threads : "R" \in proc[t].holds}
Writers == {t \in Threads : "W" \in proc[t].holds}
\* the callers blocked in r.m.Lock
Pending == {t \in Threads : proc[t].at = "Lock"}
HasWatch(reg, k, v) == k \in DOMAIN reg /\ v \in DOMAIN reg[k]

\* ipam.AddWatch: the call of watcher.addWatch, up to r.m.Lock
AddWatchEnter(t, k, v, fn) ==
    /\ proc[t].at = "idle"
    /\ proc[t].left > 0
    /\ proc' = [proc EXCEPT ![t] =
                  [IdleLocker EXCEPT !.at = "Lock", !.op = "addWatch", !.key = k,
                                     !.value = v, !.fn = fn, !.left = proc[t].left - 1]]
    /\ UNCHANGED <<rib, backend, last, restored, d, update, world>>

\* ipam.DeleteWatch: the call of watcher.deleteWatch, up to r.m.Lock
DeleteWatchEnter(t, k, v) ==
    /\ proc[t].at = "idle"
    /\ proc[t].left > 0
    /\ proc' = [proc EXCEPT ![t] =
                  [IdleLocker EXCEPT !.at = "Lock", !.op = "deleteWatch", !.key = k,
                                     !.value = v, !.left = proc[t].left - 1]]
    /\ UNCHANGED <<rib, backend, last, restored, d, update, world>>

\* r.m.Lock letting in a caller that holds the read lock itself
Lock_Reentrant(t) ==
    /\ proc[t].at = "Lock"
    /\ Writers = {}
    /\ Readers \subseteq {t}
    /\ proc' = [proc EXCEPT ![t].at = "write", ![t].holds = @ \cup {"W"}]
    /\ UNCHANGED <<rib, backend, last, restored, d, update, world>>

\* r.m.Lock of sync.RWMutex: returns once no caller holds the lock, for
\* reading or for writing
Lock(t) ==
    /\ proc[t].at = "Lock"
    /\ Writers = {}
    /\ Readers = {}
    /\ proc' = [proc EXCEPT ![t].at = "write", ![t].holds = @ \cup {"W"}]
    /\ UNCHANGED <<rib, backend, last, restored, d, update, world>>

\* the method of the registry a caller is in, its own or its callback's
Writing(t) == IF proc[t].inner # "" THEN proc[t].inner ELSE proc[t].op

\* the caller after the deferred r.m.Unlock: back in the callback loop of its
\* handleUpdate when a callback made the call, returned otherwise
Unlocked(t) ==
    IF proc[t].inner # ""
    THEN [proc[t] EXCEPT !.at = "call", !.inner = "", !.holds = @ \ {"W"}]
    ELSE [proc[t] EXCEPT !.at = "idle", !.holds = @ \ {"W"}]

\* addWatch, lines 42-46, and the deferred Unlock; the watch is no longer one
\* that was deleted before a running handleUpdate started
AddWatchBody(t) ==
    /\ proc[t].at = "write"
    /\ Writing(t) = "addWatch"
    /\ d' = addWatch(d, proc[t].key, proc[t].value, proc[t].fn)
    /\ proc' = [u \in Threads |->
                  [(IF u = t THEN Unlocked(t) ELSE proc[u])
                      EXCEPT !.gone = @ \ {<<proc[t].key, proc[t].value>>}]]
    /\ UNCHANGED <<rib, backend, last, restored, update, world>>

\* deleteWatch, lines 52-58, and the deferred Unlock
DeleteWatchBody(t) ==
    /\ proc[t].at = "write"
    /\ Writing(t) = "deleteWatch"
    /\ d' = deleteWatch(d, proc[t].key, proc[t].value)
    /\ proc' = [proc EXCEPT ![t] = Unlocked(t)]
    /\ UNCHANGED <<rib, backend, last, restored, update, world>>

\* the watches whose deleteWatch has returned, the last call of its caller, and
\* that are not registered
DeletedBefore ==
    { <<proc[u].key, proc[u].value>> : u \in
        {u \in Threads : /\ proc[u].at = "idle"
                         /\ proc[u].op = "deleteWatch"
                         /\ ~HasWatch(d, proc[u].key, proc[u].value)} }

\* the call of handleUpdate
HandleUpdateEnter(t, routes, statusCode) ==
    /\ proc[t].at = "idle"
    /\ proc[t].left > 0
    /\ proc' = [proc EXCEPT ![t] =
                  [IdleLocker EXCEPT !.at = "log", !.op = "handleUpdate",
                                     !.routes = routes, !.code = statusCode,
                                     !.left = proc[t].left - 1,
                                     !.gone = DeletedBefore]]
    /\ UNCHANGED <<rib, backend, last, restored, d, update, world>>

\* handleUpdate, line 62: r.l = log.FromContext(ctx), before the lock is asked for
HandleUpdateLog(t) ==
    /\ proc[t].at = "log"
    /\ proc' = [proc EXCEPT ![t].at = "RLock"]
    /\ UNCHANGED <<rib, backend, last, restored, d, update, world>>

\* r.m.RLock letting a reader in beside a writer
RLock_IgnoresWriters(t) ==
    /\ proc[t].at = "RLock"
    /\ proc' = [proc EXCEPT ![t].at = "build", ![t].holds = @ \cup {"R"}]
    /\ UNCHANGED <<rib, backend, last, restored, d, update, world>>

\* handleUpdate, line 63: r.m.RLock of sync.RWMutex returns once no caller holds
\* the lock for writing and none is blocked in Lock; readers do not wait for
\* each other
RLock(t) ==
    /\ proc[t].at = "RLock"
    /\ Writers = {}
    /\ Pending = {}
    /\ proc' = [proc EXCEPT ![t].at = "build", ![t].holds = @ \cup {"R"}]
    /\ UNCHANGED <<rib, backend, last, restored, d, update, world>>

\* handleUpdate, lines 66-91: updateMap, and the order its range will take
HandleUpdateBuild(t) ==
    /\ proc[t].at = "build"
    /\ \E sched \in Schedules(d, proc[t].routes) :
        proc' = [proc EXCEPT ![t].at = "call",
                             ![t].todo = handleUpdate(d, proc[t].routes, proc[t].code, sched)]
    /\ UNCHANGED <<rib, backend, last, restored, d, update, world>>

\* handleUpdate, lines 94-97: one callback is called. A plain callback returns;
\* one that registers or removes a watch calls addWatch or deleteWatch for the
\* owner it was called for and is at r.m.Lock
HandleUpdateCall(t) ==
    /\ proc[t].at = "call"
    /\ proc[t].todo # <<>>
    /\ LET c == Head(proc[t].todo) IN
       proc' = [proc EXCEPT ![t] =
                  IF c.callBackFn \in ReentrantFns
                  THEN [@ EXCEPT !.at = "Lock",
                                 !.inner = (IF c.callBackFn = "addsWatch"
                                            THEN "addWatch" ELSE "deleteWatch"),
                                 !.key = "k1", !.value = c.ownerGvk, !.fn = "f",
                                 !.todo = Tail(@), !.fired = @ \cup {c.ownerGvk}]
                  ELSE [@ EXCEPT !.todo = Tail(@), !.fired = @ \cup {c.ownerGvk}]]
    /\ UNCHANGED <<rib, backend, last, restored, d, update, world>>

\* handleUpdate, line 98 and the deferred r.m.RUnlock of line 64
HandleUpdateReturn(t) ==
    /\ proc[t].at = "call"
    /\ proc[t].todo = <<>>
    /\ proc' = [proc EXCEPT ![t].at = "idle", ![t].holds = @ \ {"R"}]
    /\ UNCHANGED <<rib, backend, last, restored, d, update, world>>

\* what a caller inside a call does next
LockStep(t) ==
    \/ Lock(t)
    \/ AddWatchBody(t)
    \/ DeleteWatchBody(t)
    \/ HandleUpdateLog(t)
    \/ RLock(t)
    \/ HandleUpdateBuild(t)
    \/ HandleUpdateCall(t)
    \/ HandleUpdateReturn(t)

NextLock ==
    \/ \E t \in Threads, k \in LockKeys, v \in OwnerGvks, fn \in LockFns :
        AddWatchEnter(t, k, v, fn)
    \/ \E t \in Threads, k \in LockKeys, v \in OwnerGvks : DeleteWatchEnter(t, k, v)
    \/ \E t \in Threads, routes \in LockUpdates : HandleUpdateEnter(t, routes, "Valid")
    \/ \E t \in Threads : LockStep(t)

\* New(nil) with the callers of its watcher between calls
NewLock ==
    /\ rib = [n \in NIs |-> Absent]
    /\ backend = "nop"
    /\ proc = [t \in Threads |-> IdleLocker]
    /\ restored = [n \in NIs |-> 0]
    /\ d = EmptyMap
    /\ update = Nil
    /\ world = EmptyCluster
    /\ last = [op |-> "New", ni |-> "", err |-> NoErr, resp |-> Nil, calls |-> <<>>,
               changed |-> FALSE]

\* goroutines that register watches and handle updates at the same time
SpecLock == NewLock /\ [][NextLock]_vars

\* the same, every goroutine that can take a step taking one in the end
SpecLockFair == SpecLock /\ \A t \in Threads : WF_vars(LockStep(t))

\* ------------------------------------------------------------------ ipallocation reconciler

\* the prefixes and gateways of an IPAllocation; "" is a field that is not set
ReconPrefixes == {"p1", "p2"}
Gateways == {"g1"}
\* a *string: nil, or where the string is and what it says
Ptr(addr, v) == IF v = "" THEN Nil ELSE [addr |-> addr, val |-> v]
Val(ptr) == IF ptr = Nil THEN "" ELSE ptr.val

errGetCr == "cannot get cr"
errUpdateStatus == "cannot update status"
RequeueAfterSeconds == 5
NoRequeue == [requeue |-> FALSE, after |-> 0]
RequeueNow == [requeue |-> TRUE, after |-> 0]
RequeueLater == [requeue |-> FALSE, after |-> RequeueAfterSeconds]

\* the IPAllocation as the API server holds it
NewCR(prefix) ==
    [deleted |-> FALSE, finalizer |-> FALSE, synced |-> "", ready |-> "", msg |-> NoErr,
     specPrefix |-> prefix, statusPrefix |-> "", statusGateway |-> ""]

\* r.Get: the object decoded, every pointer field a string of its own
Decode(stored) ==
    [stored EXCEPT !.specPrefix = Ptr("cr.Spec.Prefix", @),
                   !.statusPrefix = Ptr("cr.Status.Prefix", @),
                   !.statusGateway = Ptr("cr.Status.Gateway", @)]

\* cr.SetConditions: ReconcileSuccess() or ReconcileError(err) with Ready(),
\* Failed(msg) or Unknown(); msg is the text the pair carries
SetConditions(cr, synced, ready, msg) ==
    [cr EXCEPT !.synced = synced, !.ready = ready, !.msg = msg]

\* what the proxy's Allocate may come back with: an allocation the IPAM holds
\* from then on, an empty allocation, a refusal that leaves the IPAM as it was,
\* or the error of a Store that failed after the route was applied
AllocateOutcomes ==
    [err : {NoErr}, prefix : ReconPrefixes, gateway : {""} \cup Gateways, applied : {TRUE}]
        \cup [err : {NoErr}, prefix : {""}, gateway : {""}, applied : {FALSE}]
        \cup [err : {<<"validated failed: ", errValidateNetworkPrefixWoNetworkParent>>, ErrNotReady},
              prefix : {""}, gateway : {""}, applied : {FALSE}]
        \cup [err : {ErrBackend}, prefix : ReconPrefixes, gateway : {""}, applied : {TRUE}]

\* what the proxy's DeAllocate may come back with: the release done, the
\* instance gone, not ready, or both said in one error, or a failed Store
ErrNotReadyNotFound == <<"not ready", "not found">>
DeAllocateOutcomes ==
    [err : {NoErr, ErrNotFound, ErrNotReadyNotFound}, removed : {TRUE}]
        \cup [err : {ErrNotReady}, removed : {FALSE}]
        \cup [err : {ErrBackend}, removed : BOOLEAN]
NoAllocate == [err |-> NoErr, prefix |-> "", gateway |-> "", applied |-> FALSE]
NoDeAllocate == [err |-> NoErr, removed |-> FALSE]

\* one call the reconciler makes, with the spec prefix the object had then
Call(name, cr) == [name |-> name, specPrefix |-> Val(cr.specPrefix)]

\* a return of Reconcile: the cluster it leaves, its object, what it returns
Done(w, cr, result, err, calls) ==
    [world |-> w, cr |-> cr, result |-> result, err |-> err, calls |-> calls]

\* r.Status().Update(ctx, cr): the conditions and the status of the object are
\* stored, or nothing is
StatusUpdate(w, cr, fail) ==
    IF fail THEN w
    ELSE [w EXCEPT !.cr.synced = cr.synced, !.cr.ready = cr.ready, !.cr.msg = cr.msg,
                   !.cr.statusPrefix = Val(cr.statusPrefix),
                   !.cr.statusGateway = Val(cr.statusGateway)]

\* return result, errors.Wrap(r.Status().Update(ctx, cr), errUpdateStatus)
WithStatus(w, cr, in, result, calls) ==
    Done(StatusUpdate(w, cr, in.update), cr, result,
         IF in.update THEN <<errUpdateStatus, "update failed">> ELSE NoErr,
         Append(calls, Call("StatusUpdate", cr)))

\* the test of lines 115 and 201 on a DeAllocate error
StopsOn(err) ==
    ~ErrContains(err, "not ready") \/ ~ErrContains(err, "not found")

\* the IPAM after ClientProxy.DeAllocate
Released(w, out) ==
    IF out.removed THEN [w EXCEPT !.held = ""] ELSE w

\* the IPAM after ClientProxy.Allocate
Allocated(w, out) ==
    IF out.applied THEN [w EXCEPT !.held = out.prefix] ELSE w

\* a Reconcile that takes whatever prefix Allocate returns for the one asked
ReconcileAllocate_TrustsResponse(w, cr, in, calls) ==
    LET w1 == Allocated(w, in.alloc)
        calls1 == Append(calls, Call("Allocate", cr))
    IN
    IF in.alloc.err # NoErr
    THEN WithStatus(w1,
                    SetConditions([cr EXCEPT !.statusGateway = Nil, !.statusPrefix = Nil],
                                  "ReconcileSuccess", "Failed", in.alloc.err),
                    in, RequeueLater, calls1)
    ELSE WithStatus(w1,
                    SetConditions([cr EXCEPT
                                      !.statusGateway = Ptr("allocResp.Status.Gateway", in.alloc.gateway),
                                      !.statusPrefix = Ptr("allocResp.Status.Prefix", in.alloc.prefix)],
                                  "ReconcileSuccess", "Ready", NoErr),
                    in, NoRequeue, calls1)

\* a Reconcile that leaves the status as it was when Allocate fails
ReconcileAllocate_KeepsStatus(w, cr, in, calls) ==
    LET w1 == Allocated(w, in.alloc)
        calls1 == Append(calls, Call("Allocate", cr))
    IN
    IF in.alloc.err # NoErr
    THEN WithStatus(w1, SetConditions(cr, "ReconcileSuccess", "Failed", in.alloc.err),
                    in, RequeueLater, calls1)
    ELSE IF /\ cr.specPrefix # Nil
            /\ in.alloc.prefix # cr.specPrefix.val
    THEN WithStatus(w1, SetConditions(cr, "ReconcileSuccess", "Unknown", NoErr),
                    in, RequeueLater, calls1)
    ELSE WithStatus(w1,
                    SetConditions([cr EXCEPT
                                      !.statusGateway = Ptr("allocResp.Status.Gateway", in.alloc.gateway),
                                      !.statusPrefix = Ptr("allocResp.Status.Prefix", in.alloc.prefix)],
                                  "ReconcileSuccess", "Ready", NoErr),
                    in, NoRequeue, calls1)

\* Reconcile, lines 210-234: Allocate and what follows
ReconcileAllocate(w, cr, in, calls) ==
    LET w1 == Allocated(w, in.alloc)
        calls1 == Append(calls, Call("Allocate", cr))
        allocResp == [prefix |-> Ptr("allocResp.Status.Prefix", in.alloc.prefix),
                      gateway |-> Ptr("allocResp.Status.Gateway", in.alloc.gateway)]
    IN
    IF in.alloc.err # NoErr
    THEN WithStatus(w1,
                    SetConditions([cr EXCEPT !.statusGateway = Nil, !.statusPrefix = Nil],
                                  "ReconcileSuccess", "Failed", in.alloc.err),
                    in, RequeueLater, calls1)
    ELSE IF /\ cr.specPrefix # Nil
            /\ (allocResp.prefix = Nil \/ allocResp.prefix.val # cr.specPrefix.val)
    THEN WithStatus(w1, SetConditions(cr, "ReconcileSuccess", "Unknown", NoErr),
                    in, RequeueLater, calls1)
    ELSE WithStatus(w1,
                    SetConditions([cr EXCEPT !.statusGateway = allocResp.gateway,
                                             !.statusPrefix = allocResp.prefix],
                                  "ReconcileSuccess", "Ready", NoErr),
                    in, NoRequeue, calls1)

\* Reconcile, lines 195-208: the prefix held is released when the spec asks for
\* another; the test compares the two pointers
ReconcilePrefixChange(w, cr, in, calls) ==
    LET specPrefix == cr.specPrefix IN
    IF /\ cr.statusPrefix # Nil
       /\ cr.specPrefix # Nil
       /\ cr.statusPrefix.addr # cr.specPrefix.addr
    THEN LET cleared == [cr EXCEPT !.specPrefix = Nil]
             w1 == Released(w, in.dealloc)
             calls1 == Append(calls, Call("DeAllocate", cleared))
         IN
         IF in.dealloc.err # NoErr /\ StopsOn(in.dealloc.err)
         THEN WithStatus(w1, SetConditions(cleared, "ReconcileError", "Unknown", in.dealloc.err),
                         in, NoRequeue, calls1)
         ELSE ReconcileAllocate(w1, [cleared EXCEPT !.specPrefix = specPrefix], in, calls1)
    ELSE ReconcileAllocate(w, [cr EXCEPT !.specPrefix = specPrefix], in, calls)

\* a Reconcile that allocates in a NetworkInstance that is being deleted
ReconcileIndex_IgnoresDeleting(w, cr, in, calls) ==
    LET calls1 == Append(calls, Call("GetIndex", cr)) IN
    IF w.idx = "missing" \/ in.getIdx
    THEN WithStatus(w, SetConditions(cr, "ReconcileSuccess", "Failed", <<"index not found">>),
                    in, RequeueLater, calls1)
    ELSE ReconcilePrefixChange(w, cr, in, calls1)

\* Reconcile, lines 152-171: the NetworkInstance must be there and staying
ReconcileIndex(w, cr, in, calls) ==
    LET calls1 == Append(calls, Call("GetIndex", cr)) IN
    IF w.idx = "missing" \/ in.getIdx
    THEN WithStatus(w, SetConditions(cr, "ReconcileSuccess", "Failed", <<"index not found">>),
                    in, RequeueLater, calls1)
    ELSE IF w.idx = "deleting"
    THEN WithStatus(w, SetConditions(cr, "ReconcileSuccess", "Failed", <<"index not ready">>),
                    in, RequeueLater, calls1)
    ELSE ReconcilePrefixChange(w, cr, in, calls1)

\* Reconcile, lines 133-140: the finalizer is put on the object first
ReconcileLive(w, cr, in, calls) ==
    LET calls1 == Append(calls, Call("AddFinalizer", cr)) IN
    IF in.addFinalizer
    THEN WithStatus(w, SetConditions(cr, "ReconcileError", "Unknown", <<"cannot add finalizer">>),
                    in, RequeueNow, calls1)
    ELSE ReconcileIndex([w EXCEPT !.cr.finalizer = TRUE], [cr EXCEPT !.finalizer = TRUE],
                        in, calls1)

\* Reconcile, lines 112-131: the object is being deleted; with its finalizer
\* gone the API server drops it
ReconcileDeleted(w, cr, in, calls) ==
    LET tried == cr.ready = "Ready"
        w1 == IF tried THEN Released(w, in.dealloc) ELSE w
        calls1 == IF tried THEN Append(calls, Call("DeAllocate", cr)) ELSE calls
        calls2 == Append(calls1, Call("RemoveFinalizer", cr))
    IN
    IF tried /\ in.dealloc.err # NoErr /\ StopsOn(in.dealloc.err)
    THEN WithStatus(w1, SetConditions(cr, "ReconcileError", "Unknown", in.dealloc.err),
                    in, NoRequeue, calls1)
    ELSE IF in.removeFinalizer
    THEN WithStatus(w1, SetConditions(cr, "ReconcileError", "Unknown", <<"cannot remove finalizer">>),
                    in, RequeueNow, calls2)
    ELSE Done([w1 EXCEPT !.cr = Gone], [cr EXCEPT !.finalizer = FALSE], NoRequeue, NoErr, calls2)

\* reconciler.Reconcile, lines 97-235. The inputs are how the calls it makes
\* come out: TRUE for one that fails, an outcome for the proxy's two
Reconcile(w, in) ==
    IF w.cr = Gone
    THEN Done(w, Nil, NoRequeue, NoErr, <<[name |-> "Get", specPrefix |-> ""]>>)
    ELSE IF in.get
    THEN Done(w, Nil, NoRequeue, <<"cannot get resource", "get failed">>,
              <<[name |-> "Get", specPrefix |-> ""]>>)
    ELSE LET cr == Decode(w.cr) IN
         IF cr.deleted
         THEN ReconcileDeleted(w, cr, in, <<Call("Get", cr)>>)
         ELSE ReconcileLive(w, cr, in, <<Call("Get", cr)>>)

\* the outcomes that matter to a Reconcile of the cluster as it is
Inputs(w) ==
    LET live == w.cr # Gone /\ ~w.cr.deleted
        dying == w.cr # Gone /\ w.cr.deleted
        allocates == live /\ w.idx = "present"
    IN
    [get : IF w.cr = Gone THEN {FALSE} ELSE BOOLEAN,
     addFinalizer : IF live THEN BOOLEAN ELSE {FALSE},
     removeFinalizer : IF dying THEN BOOLEAN ELSE {FALSE},
     getIdx : IF live /\ w.idx # "missing" THEN BOOLEAN ELSE {FALSE},
     dealloc : IF \/ dying /\ w.cr.ready = "Ready"
                  \/ allocates /\ w.cr.statusPrefix # "" /\ w.cr.specPrefix # ""
               THEN DeAllocateOutcomes ELSE {NoDeAllocate},
     alloc : IF allocates THEN AllocateOutcomes ELSE {NoAllocate},
     update : IF w.cr = Gone THEN {FALSE} ELSE BOOLEAN]

\* one Reconcile of the IPAllocation
DoReconcile ==
    \E in \in Inputs(world) :
        LET res == Reconcile(world, in) IN
        /\ world' = res.world
        /\ last' = [op |-> "Reconcile", result |-> res.result, err |-> res.err]
        /\ UNCHANGED <<rib, backend, proc, restored, d, update>>

\* the user creates the IPAllocation, with a prefix or without
UserCreate(prefix) ==
    /\ world.cr = Gone
    /\ world' = [world EXCEPT !.cr = NewCR(prefix)]
    /\ UNCHANGED <<rib, backend, last, proc, restored, d, update>>

\* the user asks for another prefix, or for none
UserSetPrefix(prefix) ==
    /\ world.cr # Gone
    /\ ~world.cr.deleted
    /\ world.cr.specPrefix # prefix
    /\ world' = [world EXCEPT !.cr.specPrefix = prefix]
    /\ UNCHANGED <<rib, backend, last, proc, restored, d, update>>

\* the user deletes the IPAllocation: it stays, marked, while it has a finalizer
UserDelete ==
    /\ world.cr # Gone
    /\ ~world.cr.deleted
    /\ world' = IF world.cr.finalizer
                THEN [world EXCEPT !.cr.deleted = TRUE]
                ELSE [world EXCEPT !.cr = Gone]
    /\ UNCHANGED <<rib, backend, last, proc, restored, d, update>>

\* the NetworkInstance is created, marked for deletion, or gone
SetIndex(state) ==
    /\ world.idx # state
    /\ world' = [world EXCEPT !.idx = state]
    /\ UNCHANGED <<rib, backend, last, proc, restored, d, update>>

NextReconcile ==
    \/ DoReconcile
    \/ \E prefix \in {""} \cup ReconPrefixes : UserCreate(prefix)
    \/ \E prefix \in {""} \cup ReconPrefixes : UserSetPrefix(prefix)
    \/ UserDelete
    \/ \E state \in {"missing", "present", "deleting"} : SetIndex(state)

\* the ipallocation controller and its cluster
SpecReconcile == New(Nil) /\ [][NextReconcile]_vars

\* ======================================================= ipam client proxy
\* the status of an IPAllocation as far as the proxy compares it
ProxyGateways == {"", "g1", "g2"}
AllocStatuses == [allocatedPrefix : {""} \cup ReconPrefixes, gateway : ProxyGateways]
ZeroStatus == [allocatedPrefix |-> "", gateway |-> ""]

\* the JSON text of an IPAllocation: an opening brace, its fields, a closing one
Marshal(status) == <<"{", status.allocatedPrefix, status.gateway, "}">>

\* texts that are not JSON: the empty one, and one cut short
BadTexts == {<<>>, <<"{", "p1">>}

\* json.Unmarshal([]byte(text), alloc)
Unmarshal(text) ==
    IF Len(text) = 4 /\ text[1] = "{" /\ text[4] = "}"
    THEN [err |-> NoErr, status |-> [allocatedPrefix |-> text[2], gateway |-> text[3]]]
    ELSE [err |-> <<"unexpected end of JSON input">>, status |-> ZeroStatus]

\* the allocpb.Response of the IPAM server, by its Status text
Responses == [status : {Marshal(st) : st \in AllocStatuses} \cup BadTexts]

\* clientproxy.ValidateIpamResponse: both allocations are read from origResp
ValidateIpamResponse(origResp, newResp) ==
    LET origAlloc == Unmarshal(origResp.status)
        newAlloc == Unmarshal(origResp.status)
    IN
    IF origAlloc.err # NoErr THEN FALSE
    ELSE IF newAlloc.err # NoErr THEN FALSE
    ELSE IF \/ origAlloc.status.allocatedPrefix # newAlloc.status.allocatedPrefix
            \/ origAlloc.status.gateway # newAlloc.status.gateway
    THEN FALSE
    ELSE TRUE

\* the proxy cache refreshes a cached response and asks the validator that
\* New registered for the ipam group
RefreshValidate(origResp, newResp) ==
    /\ last' = [op |-> "ValidateIpamResponse", origResp |-> origResp, newResp |-> newResp,
                ok |-> ValidateIpamResponse(origResp, newResp)]
    /\ UNCHANGED <<rib, backend, proc, restored, d, update, world>>

NextProxy ==
    \E origResp \in Responses, newResp \in Responses : RefreshValidate(origResp, newResp)

\* the client proxy and the refreshes of its cache
SpecProxy == New(Nil) /\ [][NextProxy]_vars

\* ==================================================== specializer reconciler
\* the files of a package revision: a path, as the stem and the extension of
\* its base name, and what the file holds
KptfilePath == <<"Kptfile", "">>
YamlPath == <<"a", ".yaml">>
AddedPath == <<"b", ".yaml">>
ReadmePath == <<"README", ".md">>

\* filepath.Match(m, filepath.Base(path)) for the patterns includeFile is given
Match(m, file) ==
    IF m = "*.yaml" THEN file[2] = ".yaml"
    ELSE IF m = "*.yml" THEN file[2] = ".yml"
    ELSE file = <<m, "">>

includeFile(path, match) ==
    \E m \in match : Match(m, path)

\* a Kptfile that parses, one that is an object and no Kptfile, and a text that
\* is no object at all
KptfileData == {"kptfile", "badkptfile", "garbage"}
YamlData == {"object", "garbage"}
File(path, data) == [path |-> path, data |-> data]
Packages ==
    { kpt \cup yaml \cup readme :
        kpt \in {{}} \cup {{File(KptfilePath, x)} : x \in KptfileData},
        yaml \in {{}} \cup {{File(YamlPath, x)} : x \in YamlData},
        readme \in {{}, {File(ReadmePath, "text")}} }

\* the condition types a package revision may carry, and the reconciler's For
ConditionTypes == {"IPAllocation", "VLANAllocation"}
For == "IPAllocation"
hasSpecificTypeConditions(conditions, ct) ==
    ct \in conditions

\* the cluster of the specializer: the PackageRevision and its resources
NoPackage == [exists |-> FALSE, conds |-> {}, nilmap |-> FALSE, resources |-> {}]

\* GetResourceList: the files includeFile lets through are parsed into the
\* items of a resource list; upsert is TRUE when UpsertObjectToItems fails
GetResourceList(resources, upsert) ==
    LET inputs == { f \in resources :
                      includeFile(f.path, {"*.yaml", "*.yml", "Kptfile"}) }
    IN
    IF \E f \in inputs : f.data = "garbage"
    THEN [items |-> {}, err |-> <<"cannot parse">>, panic |-> FALSE]
    ELSE IF inputs # {} /\ upsert
    THEN [items |-> {}, err |-> NoErr, panic |-> TRUE]
    ELSE [items |-> inputs, err |-> NoErr, panic |-> FALSE]

\* r.Krmfn.Process(rl): the function leaves the items, edits one, drops the
\* Kptfile or adds an item, and fails or not
Effects == {"none", "edit", "drop", "add"}
Process(items, effect) ==
    CASE effect = "none" -> items
      [] effect = "edit" ->
            { IF f.path = YamlPath THEN File(YamlPath, "edited") ELSE f : f \in items }
      [] effect = "drop" -> { f \in items : f.path # KptfilePath }
      [] effect = "add" -> items \cup {File(AddedPath, "object")}

\* rl.Items.GetRootKptfile()
GetRootKptfile(items) ==
    { f \in items : f.path = KptfilePath }

\* a return of the specializer's Reconcile, or the panic that ends it
Specialized(w, err, calls, panic) ==
    [world |-> w, result |-> NoRequeue, err |-> err, calls |-> calls, panic |-> panic]

\* a Reconcile that writes the resources back without a look at the Kptfile
SpecializerUpdate_WithoutKptfile(w, items, in, calls) ==
    LET resources == { f \in w.resources : \A o \in items : o.path # f.path } \cup items
        calls1 == Append(calls, "Update")
    IN
    IF items # {} /\ w.nilmap
    THEN Specialized(w, NoErr, calls, TRUE)
    ELSE IF in.update
    THEN Specialized(w, <<"update failed">>, calls1, FALSE)
    ELSE Specialized([w EXCEPT !.resources = resources], NoErr, calls1, FALSE)

\* Reconcile, lines 87-107: the items go back into the resources, and the
\* resources are written when the root Kptfile is there and parses
SpecializerUpdate(w, items, in, calls) ==
    LET resources == { f \in w.resources : \A o \in items : o.path # f.path } \cup items
        kptfile == GetRootKptfile(items)
        calls1 == Append(calls, "Update")
    IN
    IF items # {} /\ w.nilmap
    THEN Specialized(w, NoErr, calls, TRUE)
    ELSE IF kptfile = {}
    THEN Specialized(w, NoErr, calls, FALSE)
    ELSE IF \E f \in kptfile : f.data # "kptfile"
    THEN Specialized(w, NoErr, calls, FALSE)
    ELSE IF in.update
    THEN Specialized(w, <<"update failed">>, calls1, FALSE)
    ELSE Specialized([w EXCEPT !.resources = resources], NoErr, calls1, FALSE)

\* Reconciler.Reconcile, lines 49-111. The inputs are how its calls come out:
\* TRUE for one that fails, an effect for the function
SpecializerReconcile(w, in) ==
    IF ~w.exists
    THEN Specialized(w, NoErr, <<"Get">>, FALSE)
    ELSE IF in.get
    THEN Specialized(w, <<"cannot get resource", "get failed">>, <<"Get">>, FALSE)
    ELSE IF ~hasSpecificTypeConditions(w.conds, For)
    THEN Specialized(w, NoErr, <<"Get">>, FALSE)
    ELSE IF in.porchGet
    THEN Specialized(w, <<"cannot get package revision resources", "get failed">>,
                     <<"Get", "PorchGet">>, FALSE)
    ELSE LET rl == GetResourceList(w.resources, in.upsert)
             calls == <<"Get", "PorchGet", "GetResourceList">>
         IN
         IF rl.panic
         THEN Specialized(w, NoErr, calls, TRUE)
         ELSE IF rl.err # NoErr
         THEN Specialized(w, <<"cannot get resourceList">> \o rl.err, calls, FALSE)
         ELSE SpecializerUpdate(w, Process(rl.items, in.process.effect), in,
                                Append(calls, "Process"))

\* the outcomes of the calls of one Reconcile
SpecializerInputs ==
    [get : BOOLEAN, porchGet : BOOLEAN, upsert : BOOLEAN,
     process : [err : BOOLEAN, effect : Effects], update : BOOLEAN]

\* one Reconcile of the PackageRevision
DoSpecialize ==
    \E in \in SpecializerInputs :
        LET res == SpecializerReconcile(world, in) IN
        /\ world' = res.world
        /\ last' = [op |-> "Specialize", result |-> res.result, err |-> res.err,
                    calls |-> res.calls, panic |-> res.panic,
                    failed |-> in.process.err]
        /\ UNCHANGED <<rib, backend, proc, restored, d, update>>

\* a PackageRevision is created with its conditions and its files; nilmap is a
\* package whose resources map is nil
PackageCreate(conds, files, nilmap) ==
    /\ ~world.exists
    /\ nilmap => files = {}
    /\ world' = [exists |-> TRUE, conds |-> conds, nilmap |-> nilmap, resources |-> files]
    /\ UNCHANGED <<rib, backend, last, proc, restored, d, update>>

PackageDelete ==
    /\ world.exists
    /\ world' = NoPackage
    /\ UNCHANGED <<rib, backend, last, proc, restored, d, update>>

NextSpecializer ==
    \/ DoSpecialize
    \/ \E conds \in SUBSET ConditionTypes, files \in Packages, nilmap \in BOOLEAN :
           PackageCreate(conds, files, nilmap)
    \/ PackageDelete

NewSpecializer ==
    /\ rib = [n \in NIs |-> Absent]
    /\ backend = "nop"
    /\ proc = [t \in Threads |-> Idle]
    /\ restored = [n \in NIs |-> 0]
    /\ d = EmptyMap
    /\ update = Nil
    /\ world = NoPackage
    /\ last = [op |-> "New", result |-> NoRequeue, err |-> NoErr, calls |-> <<>>,
               panic |-> FALSE, failed |-> FALSE]

\* the specializer controller and the package revisions it is handed
SpecSpecializer == NewSpecializer /\ [][NextSpecializer]_vars

\* ================================================================== claims
\* an instance that takes allocation traffic
Ready(name) ==
    rib[name].exists /\ rib[name].initialized

\* requests for a network prefix inside an existing one (createPrefix = false)
ChildAllocs ==
    { a \in WellFormedAllocs : a.kind = PrefixKindNetwork /\ ~a.create }

\* a route of kind network applied with createPrefix = true contains the prefix
HasNetworkParent(name, prefix) ==
    \E p \in rib[name].routes :
        p.kind = PrefixKindNetwork /\ p.create /\ Contains(p.prefix, prefix)

\* C1: a network request with createPrefix = false whose prefix no applied
\* network createPrefix = true route contains fails with the parent-missing
\* diagnostic, and the registry (the instance's table in it) is as before.
C1_ContainmentRejected ==
    \A alloc \in ChildAllocs, be \in BackendOutcomes(backend) :
        (Ready(alloc.ni) /\ ~HasNetworkParent(alloc.ni, alloc.prefix)) =>
            LET res == AllocateIPPrefix(rib, alloc, be) IN
            /\ res.err # NoErr
            /\ ErrContains(res.err, errValidateNetworkPrefixWoNetworkParent)
            /\ res.resp = Nil
            /\ res.rib = rib

\* C1 witness: an allocation was just refused with the diagnostic by a table that
\* holds an aggregate over the whole space and no network prefix.
C1_Witness ==
    /\ last.op = "AllocateIPPrefix"
    /\ ErrContains(last.err, errValidateNetworkPrefixWoNetworkParent)
    /\ ~last.changed
    /\ \E g \in rib[last.ni].routes : g.kind = PrefixKindAggregate /\ g.prefix.len = 0
    /\ \A x \in rib[last.ni].routes : x.kind = PrefixKindAggregate

\* the routes a successful AllocateIPPrefix put into its instance's table in
\* this step: network prefixes applied with createPrefix = true
AppliedParents ==
    IF last'.op = "AllocateIPPrefix" /\ last'.err = NoErr
    THEN { p \in rib'[last'.ni].routes \ rib[last'.ni].routes :
             p.kind = PrefixKindNetwork /\ p.create }
    ELSE {}

\* the requests for a prefix inside p that were refused for want of a parent
\* before the step
RejectedBefore(p) ==
    { a \in ChildAllocs :
        /\ a.ni = last'.ni
        /\ Contains(p.prefix, a.prefix)
        /\ ErrContains(AllocateIPPrefix(rib, a, [fail |-> FALSE, snap |-> {}]).err,
                       errValidateNetworkPrefixWoNetworkParent) }

\* re-issued after the step, the request succeeds and leaves parent p and its own
\* route in the table
SucceedsBeside(alloc, p) ==
    LET res == AllocateIPPrefix(rib', alloc, [fail |-> FALSE, snap |-> {}]) IN
    /\ res.err = NoErr
    /\ res.resp # Nil
    /\ RouteOf(alloc) \in res.rib[alloc.ni].routes
    /\ p \in res.rib[alloc.ni].routes

\* C2 as stated: once a network createPrefix = true request has been applied,
\* every network createPrefix = false request inside it that was rejected
\* before succeeds when re-issued, and both routes are in the table.
C2_Original ==
    [][\A p \in AppliedParents : \A alloc \in RejectedBefore(p) :
        SucceedsBeside(alloc, p)]_vars

\* C2 amended: the same, for a request whose exact prefix no route other than
\* its own holds when it is re-issued.
C2_HierarchicalAllocation ==
    [][\A p \in AppliedParents : \A alloc \in RejectedBefore(p) :
        Lookup(rib'[alloc.ni].routes, alloc.prefix) \subseteq {RouteOf(alloc)}
            => SucceedsBeside(alloc, p)]_vars

\* C2 witness: a createPrefix = false allocation has just succeeded beside its
\* parent, a different prefix of the same subnet.
C2_Witness ==
    /\ last.op = "AllocateIPPrefix"
    /\ last.err = NoErr
    /\ last.changed
    /\ \E p \in rib[last.ni].routes, c \in rib[last.ni].routes :
        /\ p.kind = PrefixKindNetwork /\ p.create
        /\ c.kind = PrefixKindNetwork /\ ~c.create
        /\ c.prefix = last.resp.allocatedPrefix
        /\ c.prefix # p.prefix
        /\ Contains(p.prefix, c.prefix)

\* C3: an AllocateIPPrefix that returns without error returns the requested
\* prefix as given, host bits included.
C3_AllocatedPrefixAsGiven ==
    \A alloc \in WellFormedAllocs, be \in BackendOutcomes(backend) :
        LET res == AllocateIPPrefix(rib, alloc, be) IN
        res.err = NoErr =>
            /\ res.resp # Nil
            /\ res.resp.allocatedPrefix = alloc.prefix

\* C3 witness: the last allocation succeeded for a prefix with host bits set,
\* and the table holds the route under that prefix.
C3_Witness ==
    /\ last.op = "AllocateIPPrefix"
    /\ last.err = NoErr
    /\ last.resp # Nil
    /\ HasHostBits(last.resp.allocatedPrefix)
    /\ Lookup(rib[last.ni].routes, last.resp.allocatedPrefix) # {}

Called(calls, what) ==
    \E i \in 1 .. Len(calls) : calls[i] = what

\* C4: Create for an instance that is already initialized calls neither Restore
\* nor setInitialized, leaves the registry (the routes allocated since the first
\* Create with it) as it is, and returns no error.
C4_CreateIdempotent ==
    \A name \in NIs, be \in RestoreOutcomes(backend) :
        isInitialized(rib, name) =>
            LET res == Create(rib, name, be) IN
            /\ ~Called(res.calls, "Restore")
            /\ ~Called(res.calls, "setInitialized")
            /\ res.rib = rib
            /\ res.err = NoErr

\* C4 witness: a Create has just returned without restoring, on an instance
\* that holds routes.
C4_Witness ==
    /\ last.op = "Create"
    /\ ~Called(last.calls, "Restore")
    /\ ~last.changed
    /\ last.err = NoErr
    /\ rib[last.ni].initialized
    /\ rib[last.ni].routes # {}

\* C6: Delete removes the instance; while it is gone every AllocateIPPrefix and
\* DeAllocateIPPrefix against it fails with not found and changes nothing, and
\* GetPrefixes returns no routes; only a Create of that name brings it back,
\* with an empty table (no-op backend).
C6_DeletedUntilCreate ==
    /\ [][\A name \in NIs :
            /\ (last'.op = "Delete" /\ last'.ni = name) => ~rib'[name].exists
            /\ (~rib[name].exists /\ rib'[name].exists) =>
                  /\ last'.op = "Create" /\ last'.ni = name
                  /\ rib'[name].routes = {}]_vars
    /\ [](\A name \in NIs :
            ~rib[name].exists =>
                /\ GetPrefixes(rib, name) = {}
                /\ \A alloc \in Allocs, be \in BackendOutcomes(backend) :
                      alloc.ni = name =>
                          LET al == AllocateIPPrefix(rib, alloc, be)
                              de == DeAllocateIPPrefix(rib, alloc, be)
                          IN
                          /\ al.err = ErrNotFound /\ al.rib = rib
                          /\ de.err = ErrNotFound /\ de.rib = rib)

\* C6 witness: an allocation was just refused with not found by an instance
\* that is gone, while the other instance still holds routes.
C6_Witness ==
    /\ last.op = "AllocateIPPrefix"
    /\ last.err = ErrNotFound
    /\ ~rib[last.ni].exists
    /\ \E other \in NIs : rib[other].routes # {}

\* C7: DeAllocateIPPrefix for a request whose route is not in the table of an
\* initialized instance returns no error and changes nothing; a second
\* DeAllocateIPPrefix of any request returns what the first did and leaves the
\* registry as the first left it.
C7_IdempotentRelease ==
    \A alloc \in WellFormedAllocs, be \in BackendOutcomes(backend) :
        Ready(alloc.ni) =>
            LET once == DeAllocateIPPrefix(rib, alloc, be)
                twice == DeAllocateIPPrefix(once.rib, alloc, be)
            IN
            /\ (\A x \in rib[alloc.ni].routes : x.prefix # alloc.prefix) =>
                  (once.err = NoErr /\ once.rib = rib)
            /\ twice.err = once.err
            /\ twice.rib = once.rib

\* C7 witness: a DeAllocateIPPrefix has just returned no error without changing
\* a table that holds other routes.
C7_Witness ==
    /\ last.op = "DeAllocateIPPrefix"
    /\ last.err = NoErr
    /\ ~last.changed
    /\ Ready(last.ni)
    /\ rib[last.ni].routes # {}

\* C8: a call addressed to one instance changes neither GetPrefixes nor the
\* initialized flag of another.
C8_Isolation ==
    [][\A other \in NIs :
        last'.ni # other =>
            /\ GetPrefixes(rib', other) = GetPrefixes(rib, other)
            /\ isInitialized(rib', other) = isInitialized(rib, other)
            /\ rib'[other] = rib[other]]_vars

\* C8 witness: a call on ni1 has just changed the registry while ni2 holds
\* routes.
C8_Witness ==
    /\ last.ni = "ni1"
    /\ last.changed
    /\ Ready("ni2")
    /\ rib["ni2"].routes # {}

\* C5: backend Restore is invoked at most once for an instance while its table
\* lives, whatever the interleaving of the Create calls for it.
C5_RestoreAtMostOnce ==
    \A name \in NIs : restored[name] <= 1

\* the routes of the update that carry the label key = value, in input order
Matching(routes, key, value) ==
    SelectSeq(routes, LAMBDA r : key \in DOMAIN r.labels /\ r.labels[key] = value)

\* the calls of the kept fan-out made for the owner value
CallsFor(value) ==
    {i \in DOMAIN update.calls : update.calls[i].ownerGvk = value}

\* C9: with every watch registered under one key k, handleUpdate(routes, code)
\* calls the callback of each registered value that some route carries under k
\* exactly once, with exactly the routes carrying that value in input order and
\* the status code unchanged; routes without the label or with an unregistered
\* value go to no callback, and a callback without a matching route is not called.
C9_FanOut ==
    \A k \in OwnerGvkKeys :
        (update # Nil /\ DOMAIN d = {k}) =>
            /\ \A v \in DOMAIN d[k] :
                IF Matching(update.routes, k, v) = <<>>
                THEN CallsFor(v) = {}
                ELSE /\ Cardinality(CallsFor(v)) = 1
                     /\ \A i \in CallsFor(v) :
                            /\ update.calls[i].callBackFn = d[k][v]
                            /\ update.calls[i].routes = Matching(update.routes, k, v)
                            /\ update.calls[i].code = update.code
            /\ \A i \in DOMAIN update.calls : update.calls[i].ownerGvk \in DOMAIN d[k]
            /\ \A fn \in CallbackFns :
                Cardinality({i \in DOMAIN update.calls : update.calls[i].callBackFn = fn})
                    = Cardinality({v \in DOMAIN d[k] :
                          d[k][v] = fn /\ Matching(update.routes, k, v) # <<>>})

\* the example of the specification: r1 of X, r2 of Y, r3 without labels
C9_Witness ==
    /\ d = Label("k1", Put(Label("X", "f"), "Y", "g"))
    /\ update # Nil
    /\ [i \in DOMAIN update.routes |-> update.routes[i].id] = <<"r1", "r2", "r3">>
    /\ \E i, j \in DOMAIN update.calls :
        /\ update.calls[i].callBackFn = "f"
        /\ [n \in DOMAIN update.calls[i].routes |-> update.calls[i].routes[n].id] = <<"r1">>
        /\ update.calls[j].callBackFn = "g"
        /\ [n \in DOMAIN update.calls[j].routes |-> update.calls[j].routes[n].id] = <<"r2">>
    /\ Len(update.calls) = 2

\* C10: with watches (k1,v) and (k2,v) registered with different callbacks, each
\* of the two callbacks that has a route carrying its own key with value v is
\* called exactly once, with exactly those routes, each of them once.
C10_PerPairAccumulation ==
    \A v \in OwnerGvks : \A k1, k2 \in OwnerGvkKeys :
        ( /\ update # Nil
          /\ k1 # k2
          /\ {k1, k2} \subseteq DOMAIN d
          /\ v \in DOMAIN d[k1] \cap DOMAIN d[k2]
          /\ d[k1][v] # d[k2][v]
          /\ Matching(update.routes, k1, v) # <<>> ) =>
            /\ Cardinality({i \in DOMAIN update.calls :
                   update.calls[i].callBackFn = d[k1][v]}) = 1
            /\ \A i \in DOMAIN update.calls :
                update.calls[i].callBackFn = d[k1][v] =>
                    update.calls[i].routes = Matching(update.routes, k1, v)

\* the watches a registry holds: key, value and callback
Registered(reg) ==
    UNION { { <<k, v, reg[k][v]>> : v \in DOMAIN reg[k] } : k \in DOMAIN reg }

\* the watches of the registry the last call found, without the call's own pair
OthersBefore ==
    { w \in Registered(last.before) : ~(w[1] = last.key /\ w[2] = last.value) }

\* C11: the registry holds for each (key, value) the callback of the latest
\* addWatch of the pair that no deleteWatch of the pair followed: addWatch sets
\* its pair to its callback and deleteWatch removes its pair, both leaving every
\* other pair as it was; no key maps to an empty inner map; and deleteWatch of a
\* pair that is not registered changes nothing.
C11_RegistryInvariant ==
    /\ \A k \in DOMAIN d : DOMAIN d[k] # {}
    /\ last.op = "AddWatch" =>
          Registered(d) = OthersBefore \cup { <<last.key, last.value, last.fn>> }
    /\ last.op = "DeleteWatch" =>
          /\ Registered(d) = OthersBefore
          /\ OthersBefore = Registered(last.before) => d = last.before

\* C11 witness: deleteWatch has just removed the only watch under k1, a watch
\* under k2 is left, and k1 is gone from the registry.
C11_Witness ==
    /\ last.op = "DeleteWatch"
    /\ last.key = "k1"
    /\ Cardinality(Registered(last.before)) = 2
    /\ DOMAIN last.before = {"k1", "k2"}
    /\ DOMAIN d = {"k2"}

\* the request that created a route of an instance
RequestOf(name, route) ==
    [ni |-> name, kind |-> route.kind, prefix |-> route.prefix, create |-> route.create,
     owner |-> route.owner]

\* C12: for every route GetPrefixes returns for an instance, DeAllocateIPPrefix
\* of the request that created it returns no error, and GetPrefixes then returns
\* the same routes without that one; the other instances are as before.
C12_RoundTrip ==
    \A name \in NIs, be \in BackendOutcomes(backend) :
        \A route \in GetPrefixes(rib, name) :
            LET res == DeAllocateIPPrefix(rib, RequestOf(name, route), be) IN
            /\ res.err = NoErr
            /\ route \notin GetPrefixes(res.rib, name)
            /\ GetPrefixes(res.rib, name) = GetPrefixes(rib, name) \ {route}
            /\ \A other \in NIs \ {name} : res.rib[other] = rib[other]

\* C12 witness: a DeAllocateIPPrefix has just removed a route and returned no
\* error, and the table still holds another route.
C12_Witness ==
    /\ last.op = "DeAllocateIPPrefix"
    /\ last.err = NoErr
    /\ last.changed
    /\ Called(last.calls, "Delete")
    /\ rib[last.ni].routes # {}

\* how often a call was made, and whether every call of one kind came before
\* every call of another
Count(calls, what) ==
    Cardinality({ i \in DOMAIN calls : calls[i] = what })
Before(calls, first, then) ==
    \A i, j \in DOMAIN calls : (calls[i] = first /\ calls[j] = then) => i < j

\* the runtime resolves the request, Validate accepts it and Apply succeeds
ApplySucceeds(alloc) ==
    LET op == RuntimesGet(rib, alloc, FALSE) IN
    /\ op.err = NoErr
    /\ Validate(op.routes, alloc).err = NoErr
    /\ Validate(op.routes, alloc).msg = ""
    /\ Apply(op.routes, alloc).err = NoErr

\* the runtime resolves the request and Delete succeeds
DeleteSucceeds(alloc) ==
    LET op == RuntimesGet(rib, alloc, FALSE) IN
    /\ op.err = NoErr
    /\ OpDelete(op.routes, alloc).err = NoErr

\* C13: AllocateIPPrefix calls Store once, as its last call and after Apply, when
\* Apply succeeded, and DeAllocateIPPrefix calls Store once, as its last call and
\* after Delete, when Delete succeeded; neither calls Store when the runtime
\* resolution, Validate, Apply or Delete failed.
C13_StoreAfterMutation ==
    \A alloc \in Allocs, be \in BackendOutcomes(backend) :
        LET al == AllocateIPPrefix(rib, alloc, be)
            de == DeAllocateIPPrefix(rib, alloc, be)
        IN
        /\ Count(al.calls, "Store") = (IF ApplySucceeds(alloc) THEN 1 ELSE 0)
        /\ Before(al.calls, "Apply", "Store")
        /\ Count(al.calls, "Store") = 1 =>
              (al.calls[Len(al.calls)] = "Store" /\ Count(al.calls, "Apply") = 1)
        /\ Count(de.calls, "Store") = (IF DeleteSucceeds(alloc) THEN 1 ELSE 0)
        /\ Before(de.calls, "Delete", "Store")
        /\ Count(de.calls, "Store") = 1 =>
              (de.calls[Len(de.calls)] = "Store" /\ Count(de.calls, "Delete") = 1)

\* C13 witness: an AllocateIPPrefix has just put a route into the table and
\* called Store after Apply.
C13_Witness ==
    /\ last.op = "AllocateIPPrefix"
    /\ last.changed
    /\ last.calls = <<"Get", "Validate", "Apply", "Store">>

\* the backend calls that fail
FailingOutcomes ==
    { be \in BackendOutcomes(backend) : be.fail }

\* C14: when Store fails after a successful Apply the route is in the table and
\* AllocateIPPrefix returns the allocation together with Store's error; when
\* Store fails after a successful Delete the route is out of the table; when the
\* backend's Delete fails during Delete of an instance its table is removed.
C14_NoRollback ==
    /\ \A alloc \in WellFormedAllocs, be \in FailingOutcomes :
        LET al == AllocateIPPrefix(rib, alloc, be)
            de == DeAllocateIPPrefix(rib, alloc, be)
        IN
        /\ ApplySucceeds(alloc) =>
              /\ al.err = ErrBackend
              /\ al.resp # Nil
              /\ al.resp.allocatedPrefix = alloc.prefix
              /\ RouteOf(alloc) \in al.rib[alloc.ni].routes
        /\ DeleteSucceeds(alloc) =>
              /\ de.err = ErrBackend
              /\ Lookup(de.rib[alloc.ni].routes, alloc.prefix) = {}
    /\ \A name \in NIs, be \in FailingOutcomes :
        ~Delete(rib, name, be).rib[name].exists

\* C14 witness: an AllocateIPPrefix has just returned Store's error with the
\* allocation, and its route is in the table.
C14_Witness ==
    /\ last.op = "AllocateIPPrefix"
    /\ last.err = ErrBackend
    /\ last.resp # Nil
    /\ last.changed
    /\ Lookup(rib[last.ni].routes, last.resp.allocatedPrefix) # {}

\* the error the resolution of a request must give, NoErr when it must succeed
ResolutionError(alloc) ==
    IF ~rib[alloc.ni].exists THEN ErrNotFound
    ELSE IF ~rib[alloc.ni].initialized THEN ErrNotReady
    ELSE IF alloc.prefix = BadPrefix THEN ErrMalformedPrefix
    ELSE IF alloc.kind \notin Kinds THEN ErrUnknownKind
    ELSE NoErr

\* C15: a request for an unknown instance, with a prefix that does not parse, or
\* of an unrecognised prefixKind makes AllocateIPPrefix and DeAllocateIPPrefix
\* return the resolution's error after the one call of the runtime's Get, with
\* no allocation, and the registry with every table as it was.
C15_ResolutionFailure ==
    \A alloc \in Allocs, be \in BackendOutcomes(backend) :
        ( \/ ~rib[alloc.ni].exists
          \/ alloc.prefix = BadPrefix
          \/ alloc.kind \notin Kinds ) =>
            LET al == AllocateIPPrefix(rib, alloc, be)
                de == DeAllocateIPPrefix(rib, alloc, be)
            IN
            /\ al.err # NoErr /\ al.err = ResolutionError(alloc)
            /\ al.calls = <<"Get">>
            /\ al.resp = Nil
            /\ al.rib = rib
            /\ de.err # NoErr /\ de.err = ResolutionError(alloc)
            /\ de.calls = <<"Get">>
            /\ de.rib = rib

\* C15 witness: an AllocateIPPrefix of a prefix that does not parse has just
\* returned the error after Get alone, against a table that holds routes.
C15_Witness ==
    /\ last.op = "AllocateIPPrefix"
    /\ last.err = ErrMalformedPrefix
    /\ last.calls = <<"Get">>
    /\ ~last.changed
    /\ rib[last.ni].routes # {}

\* caller t takes the Validate step of its AllocateIPPrefix call
ValidateStep(t) ==
    /\ proc[t].op = "AllocateIPPrefix"
    /\ proc[t].at = "Validate"
    /\ proc'[t].at # "Validate"

\* C17: Validate is a pure gate. The Validate step of an AllocateIPPrefix call
\* leaves every table as it was, and when Validate returns an error or a
\* non-empty diagnostic message the call ends there: Apply and Store are not
\* called, the allocation returned is nil, and the error carries the message.
C17_ValidateGate ==
    [][\A t \in Threads :
        ValidateStep(t) =>
            LET v == Validate(rib[proc[t].alloc.ni].routes, proc[t].alloc) IN
            /\ rib' = rib
            /\ (v.err # NoErr \/ v.msg # "") =>
                /\ proc'[t].at = "idle"
                /\ proc'[t].calls = <<"Get", "Validate">>
                /\ proc'[t].resp = Nil
                /\ proc'[t].err # NoErr
                /\ v.msg # "" => ErrContains(proc'[t].err, v.msg)]_vars

\* C17 witness: a caller is back from an AllocateIPPrefix that Validate refused
\* for want of a parent, while the table of the instance holds another route.
C17_Witness ==
    \E t \in Threads :
        /\ proc[t].at = "idle"
        /\ proc[t].op = "AllocateIPPrefix"
        /\ proc[t].calls = <<"Get", "Validate">>
        /\ ErrContains(proc[t].err, errValidateNetworkPrefixWoNetworkParent)
        /\ proc[t].resp = Nil
        /\ rib[proc[t].alloc.ni].routes # {}

\* both callers are back from AllocateIPPrefix calls for the same exact prefix
\* of ni1 that ran at the same time, no other call running meanwhile
BothRaced ==
    /\ \A t \in Threads :
        /\ proc[t].at = "idle"
        /\ proc[t].op = "AllocateIPPrefix"
        /\ proc[t].met = 1
    /\ proc["t1"].alloc.prefix = proc["t2"].alloc.prefix

\* one route holds the prefix, one call returned no error and the other
\* returned already exists
OneWinner ==
    /\ Cardinality(Lookup(rib["ni1"].routes, proc["t1"].alloc.prefix)) = 1
    /\ \E t \in Threads :
        /\ proc[t].err = NoErr
        /\ proc[t].resp # Nil
        /\ RouteOf(proc[t].alloc) \in rib["ni1"].routes
        /\ \A u \in Threads \ {t} :
            /\ proc[u].err = ErrAlreadyExists
            /\ proc[u].resp = Nil

\* C16: after AllocateIPPrefix calls of two owners for the same exact prefix
\* of one table that ran at the same time and both got to their Validate and
\* Apply steps, in whatever order those steps interleaved, the table holds
\* exactly one route for the prefix, exactly one call succeeded and the other
\* returned an already exists error.
C16_ExactlyOneWins ==
    (BothRaced /\ \A t \in Threads : Called(proc[t].calls, "Apply")) => OneWinner

\* C16 witness: two createPrefix = false requests for the same prefix inside an
\* applied parent ran at the same time; one holds the route and the other got
\* already exists.
C16_Witness ==
    /\ BothRaced
    /\ OneWinner
    /\ \A t \in Threads : ~proc[t].alloc.create /\ Called(proc[t].calls, "Apply")
    /\ \E p \in rib["ni1"].routes : p.create /\ p.prefix # proc["t1"].alloc.prefix

\* caller t is inside a callback that has called addWatch or deleteWatch
InCallback(t) == proc[t].inner # ""
\* caller t is inside handleUpdate
Handling(t) == proc[t].op = "handleUpdate" /\ proc[t].at # "idle"

\* C18: a callback that calls addWatch or deleteWatch from inside handleUpdate
\* never completes: its call stays at r.m.Lock, handleUpdate holding the read
\* lock of the registry all the while. A handleUpdate terminates as long as no
\* callback of a running handleUpdate touches the registry.
C18_ReentrancyDeadlock ==
    /\ [][\A t \in Threads :
            InCallback(t) =>
                /\ "R" \in proc[t].holds
                /\ InCallback(t)'
                /\ proc'[t].at = "Lock"]_vars
    /\ \A t \in Threads :
        Handling(t) ~> (proc[t].at = "idle" \/ \E u \in Threads : InCallback(u))

\* C18 witness: one caller's handleUpdate has called a callback that registers or
\* removes a watch and waits at r.m.Lock with the read lock held, after the other
\* caller's handleUpdate with a plain callback has returned.
C18_Witness ==
    \E t \in Threads, u \in Threads :
        /\ t # u
        /\ InCallback(t)
        /\ proc[t].at = "Lock"
        /\ "R" \in proc[t].holds
        /\ proc[u].at = "idle"
        /\ proc[u].op = "handleUpdate"
        /\ proc[u].fired # {}

\* a caller that holds r.m for writing holds it alone
MutualExclusion ==
    \A t \in Writers : Writers = {t} /\ Readers = {}

\* caller t calls the next callback of its updateMap
CallbackStep(t) ==
    /\ proc[t].at = "call"
    /\ proc[t].todo # <<>>
    /\ proc'[t].todo = Tail(proc[t].todo)

\* C19: addWatch and deleteWatch exclude each other and every handleUpdate, while
\* handleUpdate calls overlap; the registry does not change while a handleUpdate
\* holds the lock, and a callback that handleUpdate calls is registered for its
\* owner at that time, never one of a watch whose deleteWatch returned before
\* the handleUpdate started.
C19_LockDiscipline ==
    /\ [](MutualExclusion)
    /\ [][d' # d => Readers = {}]_vars
    /\ [][\A t \in Threads :
            CallbackStep(t) =>
                LET c == Head(proc[t].todo) IN
                \E k \in DOMAIN d :
                    /\ c.ownerGvk \in DOMAIN d[k]
                    /\ d[k][c.ownerGvk] = c.callBackFn
                    /\ <<k, c.ownerGvk>> \notin proc[t].gone]_vars

\* C19 witness: both callers hold the read lock in handleUpdate at once; one of
\* them started after deleteWatch of a watch had returned, was given a route
\* labelled for that watch, and has no callback to call for it.
C19_Witness ==
    /\ Readers = Threads
    /\ \E t \in Threads, p \in LockKeys \X OwnerGvks :
        /\ p \in proc[t].gone
        /\ proc[t].at = "call"
        /\ \E i \in DOMAIN proc[t].routes :
            /\ p[1] \in DOMAIN proc[t].routes[i].labels
            /\ proc[t].routes[i].labels[p[1]] = p[2]
        /\ \A i \in DOMAIN proc[t].todo : proc[t].todo[i].ownerGvk # p[2]
        /\ p[2] \notin proc[t].fired

\* the next step of caller t writes the field l of the watcher (line 62)
WritesLogger(t) == proc[t].at = "log"
\* the next step of caller t reads the field l of the watcher (line 95)
ReadsLogger(t) == proc[t].at = "call" /\ proc[t].todo # <<>>

\* C20: no two callers are about to write, or to write and to read, the field l
\* of the shared watcher unless one of them holds a lock that keeps the other
\* out.
C20_NoUnlockedSharedField ==
    \A t \in Threads, u \in Threads :
        (t # u /\ WritesLogger(t) /\ (WritesLogger(u) \/ ReadsLogger(u))) =>
            ("W" \in proc[t].holds \/ "W" \in proc[u].holds)

\* the route is a network prefix allocated inside an existing one
IsChild(r) == r.kind = PrefixKindNetwork /\ ~r.create

\* C21: in every reachable state of every table, the states reached by an
\* AllocateIPPrefix of a network createPrefix = false child running beside a
\* DeAllocateIPPrefix of its parent included, each route of kind network with
\* createPrefix = false is contained by another route of the table of kind
\* network with createPrefix = true.
C21_ContainmentInvariant ==
    \A name \in NIs :
        \A r \in rib[name].routes :
            IsChild(r) => HasNetworkParent(name, r.prefix)

\* AllocateIPPrefix of the request, and the same call made again on what the
\* first left
Repeated(alloc, be) ==
    LET first == AllocateIPPrefix(rib, alloc, be) IN
    [first |-> first, again |-> AllocateIPPrefix(first.rib, alloc, be)]

\* the repeat of a successful call succeeds, returns what the first returned and
\* leaves the table of the first, with one route for the prefix
SameAgain(alloc, be) ==
    LET rep == Repeated(alloc, be) IN
    rep.first.err = NoErr =>
        /\ rep.again.err = NoErr
        /\ rep.again.resp = rep.first.resp
        /\ rep.again.rib = rep.first.rib
        /\ Lookup(rep.again.rib[alloc.ni].routes, alloc.prefix) = {RouteOf(alloc)}

ReplacesOwnParent(alloc) ==
    /\ IsChild(RouteOf(alloc))
    /\ NetworkParents(rib[alloc.ni].routes, alloc.prefix)
           = { r \in Lookup(rib[alloc.ni].routes, alloc.prefix) : r.owner = alloc.owner }

C23_InitializedDespiteRestoreError ==
    \A name \in NIs, be \in RestoreOutcomes(backend) :
        (~isInitialized(rib, name) /\ be.fail) =>
            LET res == Create(rib, name, be) IN
            /\ res.calls = <<"create", "isInitialized", "Restore", "Error", "setInitialized">>
            /\ res.err = setInitialized(Restore(ribCreate(rib, name), name, be), name).err
            /\ res.err = NoErr
            /\ isInitialized(res.rib, name)
            /\ \A later \in RestoreOutcomes(backend) :
                ~Called(Create(res.rib, name, later).calls, "Restore")
            /\ \A alloc \in WellFormedAllocs :
                alloc.ni = name => RuntimesGet(res.rib, alloc, FALSE).err = NoErr

\* C23 witness: a Create whose Restore failed has just returned no error, and
\* the instance is initialized with an empty table.
C23_Witness ==
    /\ last.op = "Create"
    /\ Called(last.calls, "Error")
    /\ Called(last.calls, "setInitialized")
    /\ last.err = NoErr
    /\ isInitialized(rib, last.ni)
    /\ rib[last.ni].routes = {}

\* the calls of a Reconcile by name, and the Reconcile outcomes of the cluster
Names(calls) == [i \in DOMAIN calls |-> calls[i].name]
Made(res, name) == Called(Names(res.calls), name)
\* the IPAllocation is there, r.Get returns it, and it is being deleted
Dying(in) == world.cr # Gone /\ ~in.get /\ world.cr.deleted
\* the IPAllocation is there, r.Get returns it, and it is not being deleted
Live(in) == world.cr # Gone /\ ~in.get /\ ~world.cr.deleted

\* C24: whenever a Reconcile removes the finalizer of the IPAllocation, the IPAM
\* holds no allocation for it afterwards, and if it held one DeAllocate was
\* called, and released it, before RemoveFinalizer.
C24_NoLeakOnDeletion ==
    \A in \in Inputs(world) :
        LET res == Reconcile(world, in) IN
        (Dying(in) /\ Made(res, "RemoveFinalizer") /\ res.world.cr = Gone) =>
            /\ res.world.held = ""
            /\ world.held # "" =>
                /\ Made(res, "DeAllocate")
                /\ Before(Names(res.calls), "DeAllocate", "RemoveFinalizer")

\* C25: on deletion of a Ready IPAllocation a DeAllocate error that contains
\* "not found" or contains "not ready", one of the two being enough, is
\* tolerated and the reconciler goes on to remove the finalizer; on any other
\* DeAllocate error it sets the error condition and returns, the finalizer kept.
C25_ToleratedDeallocErrors ==
    \A in \in Inputs(world) :
        (Dying(in) /\ world.cr.ready = "Ready" /\ in.dealloc.err # NoErr) =>
            LET res == Reconcile(world, in)
                tolerated == \/ ErrContains(in.dealloc.err, "not found")
                             \/ ErrContains(in.dealloc.err, "not ready")
            IN
            /\ tolerated => Made(res, "RemoveFinalizer")
            /\ ~tolerated =>
                /\ ~Made(res, "RemoveFinalizer")
                /\ res.cr.synced = "ReconcileError"
                /\ res.world.cr # Gone
                /\ res.world.cr.finalizer

\* a Reconcile that gets as far as the comparison of status and spec prefix,
\* both being set
ComparesPrefixes(in) ==
    /\ Live(in)
    /\ ~in.addFinalizer
    /\ world.idx = "present" /\ ~in.getIdx
    /\ world.cr.statusPrefix # ""
    /\ world.cr.specPrefix # ""

\* C26: in a Reconcile where status prefix and spec prefix are both set,
\* DeAllocate, with the spec prefix cleared, is called before Allocate exactly
\* when the two values differ; when they are equal no DeAllocate is issued; the
\* spec prefix is back at its value when Allocate is called.
C26_DeleteThenApply ==
    \A in \in Inputs(world) :
        ComparesPrefixes(in) =>
            LET res == Reconcile(world, in) IN
            /\ Made(res, "DeAllocate") <=> (world.cr.statusPrefix # world.cr.specPrefix)
            /\ Before(Names(res.calls), "DeAllocate", "Allocate")
            /\ \A i \in DOMAIN res.calls :
                /\ res.calls[i].name = "DeAllocate" => res.calls[i].specPrefix = ""
                /\ res.calls[i].name = "Allocate" =>
                       res.calls[i].specPrefix = world.cr.specPrefix

C28_FailedAllocationRequeues ==
    \A in \in Inputs(world) :
        LET res == Reconcile(world, in) IN
        (Live(in) /\ Made(res, "Allocate") /\ in.alloc.err # NoErr) =>
            /\ res.cr.statusPrefix = Nil
            /\ res.cr.statusGateway = Nil
            /\ res.cr.synced = "ReconcileSuccess"
            /\ res.cr.ready = "Failed"
            /\ res.cr.msg = in.alloc.err
            /\ res.result = RequeueLater
            /\ (res.err # NoErr) <=> in.update
            /\ res.err # NoErr => ErrContains(res.err, errUpdateStatus)
            /\ ~in.update =>
                /\ res.world.cr.statusPrefix = ""
                /\ res.world.cr.statusGateway = ""
                /\ res.world.cr.ready = "Failed"

\* C28 witness: the last Reconcile asked for a requeue after 5 seconds and
\* returned no error; the stored IPAllocation, Ready before with a prefix the
\* IPAM still holds, is Failed with the validation diagnostic and has no status
\* prefix.
C28_Witness ==
    /\ last.op = "Reconcile"
    /\ last.err = NoErr
    /\ last.result = RequeueLater
    /\ world.cr # Gone
    /\ world.cr.ready = "Failed"
    /\ ErrContains(world.cr.msg, errValidateNetworkPrefixWoNetworkParent)
    /\ world.cr.statusPrefix = ""
    /\ world.cr.statusGateway = ""
    /\ world.held # ""

\* C29: in a Reconcile of an IPAllocation that is not being deleted, Allocate is
\* called only after AddFinalizer succeeded and only with the NetworkInstance
\* there and not being deleted; with the NetworkInstance missing or being
\* deleted neither Allocate nor DeAllocate is called, the condition is Failed
\* and the request is requeued after 5 seconds.
C29_OrderingGuards ==
    \A in \in Inputs(world) :
        Live(in) =>
            LET res == Reconcile(world, in) IN
            /\ Made(res, "Allocate") =>
                /\ Made(res, "AddFinalizer")
                /\ Before(Names(res.calls), "AddFinalizer", "Allocate")
                /\ ~in.addFinalizer
                /\ res.world.cr.finalizer
                /\ Before(Names(res.calls), "GetIndex", "Allocate")
                /\ world.idx = "present"
            /\ (~in.addFinalizer /\ world.idx # "present") =>
                /\ ~Made(res, "Allocate")
                /\ ~Made(res, "DeAllocate")
                /\ res.cr.ready = "Failed"
                /\ res.result = RequeueLater

\* C29 witness: the NetworkInstance is being deleted, and the last Reconcile
\* left the IPAllocation, finalizer on, Failed with index not ready and asked
\* for a requeue after 5 seconds, the allocation made earlier still held.
C29_Witness ==
    /\ last.op = "Reconcile"
    /\ last.result = RequeueLater
    /\ world.idx = "deleting"
    /\ world.cr # Gone
    /\ world.cr.finalizer
    /\ world.cr.ready = "Failed"
    /\ world.cr.msg = <<"index not ready">>
    /\ world.held # ""

\* C30: ValidateIpamResponse returns true exactly when both responses parse
\* and the allocatedPrefix and the gateway of the new one equal those of the
\* original.
C30_ValidateIpamResponse ==
    last.op = "ValidateIpamResponse" =>
        LET orig == Unmarshal(last.origResp.status)
            new == Unmarshal(last.newResp.status)
        IN
        last.ok <=> /\ orig.err = NoErr
                    /\ new.err = NoErr
                    /\ new.status.allocatedPrefix = orig.status.allocatedPrefix
                    /\ new.status.gateway = orig.status.gateway

\* the package revision is complete for a Reconcile with these outcomes: it is
\* there and read, has a condition of the For type, its resources are read and
\* parse, and after the function ran the root Kptfile is there and parses
Complete(in) ==
    LET rl == GetResourceList(world.resources, in.upsert)
        kptfile == GetRootKptfile(Process(rl.items, in.process.effect))
    IN
    /\ world.exists /\ ~in.get
    /\ hasSpecificTypeConditions(world.conds, For)
    /\ ~in.porchGet
    /\ rl.err = NoErr /\ ~rl.panic
    /\ kptfile # {}
    /\ \A f \in kptfile : f.data = "kptfile"

\* a call of the Reconcile that was made and failed
FailedCall(in, res) ==
    \/ world.exists /\ in.get
    \/ Called(res.calls, "PorchGet") /\ in.porchGet
    \/ /\ Called(res.calls, "GetResourceList")
       /\ GetResourceList(world.resources, in.upsert).err # NoErr
    \/ Called(res.calls, "Update") /\ in.update

\* C31: a Reconcile of the specializer calls PorchClient.Update at most once,
\* and only for a package revision that has a condition of the For type, whose
\* resource list was built without error and whose root Kptfile is there and
\* parses; a failed function run does not keep it from the update; the stored
\* resources change only by an update that succeeds; and every Reconcile that
\* returns gives an empty result, with a nil error unless its Get, its
\* GetResourceList or its Update failed.
C31_WritesOnceWhenComplete ==
    \A in \in SpecializerInputs :
        LET res == SpecializerReconcile(world, in) IN
        /\ Count(res.calls, "Update") <= 1
        /\ Called(res.calls, "Update") => Complete(in)
        /\ (Complete(in) /\ in.process.err /\ ~res.panic) => Called(res.calls, "Update")
        /\ res.world # world => (Called(res.calls, "Update") /\ ~in.update)
        /\ ~res.panic =>
            /\ res.result = NoRequeue
            /\ ~FailedCall(in, res) => res.err = NoErr

\* C31 witness: the last Reconcile ran a function that failed after it had
\* edited a file, called Update all the same and returned no error, and the
\* stored package has the edited file beside its Kptfile.
C31_Witness ==
    /\ last.op = "Specialize"
    /\ last.failed
    /\ Called(last.calls, "Update")
    /\ Count(last.calls, "Update") = 1
    /\ last.err = NoErr
    /\ last.result = NoRequeue
    /\ File(YamlPath, "edited") \in world.resources
    /\ File(KptfilePath, "kptfile") \in world.resources

====
